---- MODULE Spec2Model ----
(***************************************************************************)
(* A model of ScubaOverlay's segment-aware sample timeline:                *)
(*   - extract_dive_segment            (src/src/parser.py)                 *)
(*   - detect_timezone_offset          (src/src/video_metadata.py)         *)
(*   - main's segment-matching flow    (src/src/main.py)                   *)
(*   - SubsurfaceParser / ShearwaterParser sample building                 *)
(*                                     (src/src/parser.py)                 *)
(* Absolute instants (datetime) are integers counting seconds; a sample    *)
(* list handed to extract_dive_segment is the sequence of its samples'     *)
(* time fields, and a returned sample list is the sequence of the indices  *)
(* (object identities) of the samples it holds.                            *)
(***************************************************************************)
EXTENDS Integers, Sequences, FiniteSets, TLC

VARIABLES
    samples,        \* dive_data.samples, as the sequence of sample.time
    segment_start,  \* argument of extract_dive_segment
    segment_end,    \* argument of extract_dive_segment
    seg_pc,         \* "idle" | "call" | "done"
    seg_outcome,    \* what the call produced (a list or a raised error)
    video_time,     \* detect_timezone_offset: video creation instant
    dive_start,     \* detect_timezone_offset: dive start instant
    dive_end,       \* detect_timezone_offset: dive end instant
    tz_pc,          \* "idle" | "loop" | "returned"
    tz_tested,      \* the candidates taken from the generator so far
    tz_result,      \* the returned offset, or None
    args,           \* main: the parsed command line
    main_pc,        \* main: the statement main() is at
    dive_data,      \* main: DiveData returned by parse_dive_log
    video_metadata, \* main: VideoMetadata of the matched video
    timezone_offset,        \* main: Optional[int]
    segment_start_offset,   \* main: Optional[int]
    segment_end_offset,     \* main: Optional[int]
    segment_duration,       \* main: Optional[int]
    time_offset,    \* main: offset handed to the renderer
    dive_samples,   \* main: indices (into dive_data.samples) to render
    main_error,     \* main: the error that ended the run, "" if none
    calls,          \* main: the collaborators called so far, in order
    render_job,     \* main: arguments of the generate_*_video call
    file,           \* parser: the file handed to parse_dive_log
    doc,            \* parser: the dive log document being parsed
    parse_pc,       \* parser: "idle" | "dispatch" | "open" | "samples"
                    \*         | "inject" | "done" | "failed"
    last_values,    \* parser: the running "last known values" snapshot
    profile_data,   \* parser: the samples appended so far
    gas_changes,    \* parser: the sorted gas changes still to inject
    parse_error,    \* parser: the exception that ended parse, if any
    entry,          \* rendering: the function called
    render_args,    \* rendering: its arguments
    render_pc,      \* rendering: position in the called function
    compiled,       \* rendering: the compiled template, None before
    writer,         \* rendering: the cv2.VideoWriter handle
    sec,            \* rendering: the second being rendered
    idx,            \* rendering: generate_overlay_video's sample pointer
    frames,         \* rendering: what each rendered frame showed
    render_error    \* rendering: the exception that ended the call

segVars == <<samples, segment_start, segment_end, seg_pc, seg_outcome>>
tzVars == <<video_time, dive_start, dive_end, tz_pc, tz_tested, tz_result>>
mainVars ==
    <<args, main_pc, dive_data, video_metadata, timezone_offset,
      segment_start_offset, segment_end_offset, segment_duration,
      time_offset, dive_samples, main_error, calls, render_job>>
parseVars ==
    <<file, doc, parse_pc, last_values, profile_data, gas_changes,
      parse_error>>
renderVars ==
    <<entry, render_args, render_pc, compiled, writer, sec, idx, frames,
      render_error>>
vars == <<segVars, tzVars, mainVars, parseVars, renderVars>>

\* An optional value: None, or Some(x) holding x.
None == <<>>
Some(x) == <<x>>
Val(opt) == opt[1]

\* seg_outcome before extract_dive_segment has been called.
NoOutcome ==
    [kind |-> "none", samples |-> <<>>, segment_start |-> 0,
     segment_end |-> 0, count |-> 0, warnings |-> {}]

----------------------------------------------------------------------------
(* Bounds of the explored inputs. *)

MaxTime == 3
MaxSamples == 3

SampleTimes == 0..MaxTime

\* Spec section 8, property 4: the worked boundary-inclusion example.
ExampleSamples == <<0, 50, 100, 150, 200, 250>>

SampleLists ==
    UNION {[1..n -> SampleTimes] : n \in 0..MaxSamples} \cup {ExampleSamples}

SegmentBounds == (-2..(MaxTime + 2)) \cup {100, 200}

----------------------------------------------------------------------------
(* Helpers. *)

SetMin(S) == CHOOSE x \in S : \A y \in S : x <= y

Indices(seq) == [i \in 1..Len(seq) |-> i]

IsTimeOrdered(seq) == \A i \in 1..(Len(seq) - 1) : seq[i] <= seq[i + 1]

----------------------------------------------------------------------------
(* extract_dive_segment *)

\* raise SegmentOutOfBoundsError(segment_start, segment_end, dive_duration)
SegmentOutOfBoundsError(s, e, dive_duration) ==
    [kind |-> "SegmentOutOfBoundsError", samples |-> <<>>,
     segment_start |-> s, segment_end |-> e, count |-> dive_duration,
     warnings |-> {}]

\* raise EmptySegmentError(segment_start, segment_end, sample_count)
EmptySegmentError(s, e, sample_count) ==
    [kind |-> "EmptySegmentError", samples |-> <<>>,
     segment_start |-> s, segment_end |-> e, count |-> sample_count,
     warnings |-> {}]

\* The clamping of segment_end (trim to the dive duration).
ClampEndNoTrim(e, dive_duration) == e
ClampEnd(e, dive_duration) == IF e > dive_duration THEN dive_duration ELSE e

\* The clamping of segment_start (adjust to 0).
ClampStart(s) == IF s < 0 THEN 0 ELSE s

\* First loop: the one sample before the first sample with time >= start.
AnchorBeforeFirstHit(smp, start) ==
    LET hits == {i \in 1..Len(smp) : smp[i] >= start}
    IN  IF hits = {} THEN <<>> ELSE <<SetMin(hits)>>
AnchorBefore(smp, start) ==
    LET hits == {i \in 1..Len(smp) : smp[i] >= start}
    IN  IF hits = {} THEN <<>>
        ELSE IF SetMin(hits) > 1 THEN <<SetMin(hits) - 1>> ELSE <<>>

\* Second loop: every sample with start <= time <= end, in list order.
InsideExclusiveEnd(smp, start, end) ==
    SelectSeq(Indices(smp), LAMBDA i : start <= smp[i] /\ smp[i] < end)
Inside(smp, start, end) ==
    SelectSeq(Indices(smp), LAMBDA i : start <= smp[i] /\ smp[i] <= end)

\* Third loop: the first sample with time > end.
AnchorAfterNone(smp, end) == <<>>
AnchorAfter(smp, end) ==
    LET hits == {i \in 1..Len(smp) : smp[i] > end}
    IN  IF hits = {} THEN <<>> ELSE <<SetMin(hits)>>

\* Lines 115-140, with the bounds as clamped by lines 103-113.
SelectSegment(smp, start, end, warnings) ==
    LET segment_samples ==
            AnchorBefore(smp, start) \o Inside(smp, start, end)
                \o AnchorAfter(smp, end)
    IN  IF segment_samples = <<>>
        THEN EmptySegmentError(start, end, Len(smp))
        ELSE [kind |-> "ok", samples |-> segment_samples,
              segment_start |-> start, segment_end |-> end,
              count |-> Len(segment_samples), warnings |-> warnings]

\* The empty-dive guard of lines 94-95.
EmptyDiveUnchecked(s, e) ==
    [kind |-> "ok", samples |-> <<>>, segment_start |-> s,
     segment_end |-> e, count |-> 0, warnings |-> {}]
EmptyDive(s, e) == EmptySegmentError(s, e, 0)

\* The out-of-bounds test of line 100.
StartsBeyondStrict(s, dive_duration) == s > dive_duration
StartsBeyond(s, dive_duration) == s >= dive_duration

ExtractDiveSegment(smp, s, e) ==
    IF smp = <<>> THEN EmptyDive(s, e)
    ELSE
        LET dive_duration == smp[Len(smp)]
        IN  IF StartsBeyond(s, dive_duration)
            THEN SegmentOutOfBoundsError(s, e, dive_duration)
            ELSE SelectSegment(
                    smp, ClampStart(s), ClampEnd(e, dive_duration),
                    (IF e > dive_duration THEN {"trimmed_end"} ELSE {})
                        \cup (IF s < 0 THEN {"adjusted_start"} ELSE {}))

----------------------------------------------------------------------------
(* detect_timezone_offset *)

\* range(1, 11): the first magnitude that is not generated.
OffsetRangeStop == 11

\* timedelta(hours=offset_hours), in seconds.
SecondsPerHour == 3600

\* generate_timezone_offsets: yield 0, then i and -i for i in range(1, 11).
RECURSIVE OffsetsFrom(_)
OffsetsFrom(i) ==
    IF i >= OffsetRangeStop THEN <<>> ELSE <<i, -i>> \o OffsetsFrom(i + 1)

GenerateNegativeFirst == <<0>> \o [k \in 1..(2 * (OffsetRangeStop - 1)) |->
                                      IF k % 2 = 1 THEN -((k + 1) \div 2)
                                                   ELSE k \div 2]
GenerateTimezoneOffsets == <<0>> \o OffsetsFrom(1)

\* dive_start <= adjusted_time <= dive_end
WithinDiveExclusiveEnd(adjusted_time, start, end) ==
    start <= adjusted_time /\ adjusted_time < end
WithinDive(adjusted_time, start, end) ==
    start <= adjusted_time /\ adjusted_time <= end

AdjustedTime(vt, offset_hours) == vt + offset_hours * SecondsPerHour

\* One iteration of the for loop: take the next candidate and test it.
TzTest ==
    /\ tz_pc = "loop"
    /\ Len(tz_tested) < Len(GenerateTimezoneOffsets)
    /\ LET offset_hours == GenerateTimezoneOffsets[Len(tz_tested) + 1]
       IN  /\ tz_tested' = Append(tz_tested, offset_hours)
           /\ IF WithinDive(AdjustedTime(video_time, offset_hours),
                            dive_start, dive_end)
              THEN tz_result' = Some(offset_hours) /\ tz_pc' = "returned"
              ELSE UNCHANGED <<tz_result, tz_pc>>
    /\ UNCHANGED <<video_time, dive_start, dive_end>>

\* The generator is exhausted: return None.
TzReturnNone ==
    /\ tz_pc = "loop"
    /\ Len(tz_tested) = Len(GenerateTimezoneOffsets)
    /\ tz_result' = None
    /\ tz_pc' = "returned"
    /\ UNCHANGED <<video_time, dive_start, dive_end, tz_tested>>

----------------------------------------------------------------------------
(* Attribute and element texts.                                            *)
(* A text is [kind, parts]:                                                *)
(*   "num"   an unsigned integer literal n, parts = <<n>>                  *)
(*   "dec"   a decimal literal, parts = <<its value in hundredths>>        *)
(*   "clock" colon-separated integers ("MM:SS", "H:MM:SS"), parts = them   *)
(*   "text"  anything that is not a number ("AI is off", "Not diving")     *)
(*   "empty" an element without text (element.text is None)                *)
(* A unit suffix (" m", " bar", " C", " min", "%") is taken as stripped.   *)
(* float values are kept in hundredths, int values as integers.            *)

Num(n) == [kind |-> "num", parts |-> <<n>>]
Dec(hundredths) == [kind |-> "dec", parts |-> <<hundredths>>]
Clock(parts) == [kind |-> "clock", parts |-> parts]
Junk == [kind |-> "text", parts |-> <<>>]
EmptyText == [kind |-> "empty", parts |-> <<>>]

Has(attrs, key) == key \in DOMAIN attrs

\* float(text) succeeds / its value.
IsFloat(text) == text.kind \in {"num", "dec"}
Float(text) ==
    IF text.kind = "num" THEN text.parts[1] * 100 ELSE text.parts[1]

\* int(text) succeeds / its value; str.isdigit().
IsInt(text) == text.kind = "num"
Int_(text) == text.parts[1]
IsDigit(text) == text.kind = "num"

\* int(text.split(":")[0]) succeeds / its value.
IsLeadingInt(text) == text.kind \in {"num", "clock"}
LeadingInt(text) == text.parts[1]

\* _parse_time_to_seconds: list(map(int, t.split(":"))) succeeds.
IsTimeText(text) == text.kind \in {"num", "clock"}

\* _parse_time_to_seconds on a text whose parts are integers.
ParseTimeToSeconds(text) ==
    LET parts == text.parts
    IN  IF Len(parts) = 2 THEN parts[1] * 60 + parts[2]
        ELSE IF Len(parts) = 3
             THEN parts[1] * 3600 + parts[2] * 60 + parts[3]
        ELSE 0

----------------------------------------------------------------------------
(* DiveSample and the parsers' per-record update. *)

\* The dataclass defaults of DiveSample (time and depth are required).
\* Every field but time holds None or Some(value).
DiveSample(time, depth) ==
    [time |-> time, depth |-> Some(depth), ndl |-> None, tts |-> None,
     stop_depth |-> Some(0), stop_time |-> Some(0), temperature |-> None,
     pressure |-> <<>>, fractionO2 |-> None, fractionHe |-> None,
     sac |-> None, gtr |-> None, ppo2 |-> None, cns |-> None,
     ppo2_sensors |-> <<>>]

\* "Update last known values only if present in this sample".
NoCarry(present, new, old) == IF present THEN new ELSE None
CarryForward(present, new, old) == IF present THEN new ELSE old

\* SubsurfaceParser.parse, lines 197-209.
SubsurfaceInitial(cylinders) ==
    [DiveSample(0, 0) EXCEPT
        !.ndl = Some(99), !.cns = Some(0), !.ppo2 = None,
        !.pressure = [i \in 1..cylinders |-> None],
        !.ppo2_sensors = <<None, None, None>>]

SensorKey(i) == <<"sensor1", "sensor2", "sensor3">>[i]
PressureKey(i) == <<"pressure0", "pressure1", "pressure2", "pressure3">>[i]

\* The exception one <sample> raises, "" if none (lines 213-230).
SubsurfaceSampleError(attrs) ==
    IF ~Has(attrs, "time") THEN "NoDiveDataError"
    ELSE IF ~IsTimeText(attrs.time) THEN "ValueError"
    ELSE IF
        \/ \E k \in {"depth", "temp", "stopdepth", "dc_supplied_ppo2"} :
                Has(attrs, k) /\ ~IsFloat(attrs[k])
        \/ \E k \in {"ndl", "tts", "stoptime"} :
                Has(attrs, k) /\ ~IsLeadingInt(attrs[k])
    THEN "ValueError"
    ELSE ""

\* The snapshot after one <sample> (lines 212-248).
SubsurfaceUpdate(lv, attrs) ==
    [lv EXCEPT
        !.time = ParseTimeToSeconds(attrs.time),
        !.depth = CarryForward(Has(attrs, "depth"),
                               Some(Float(attrs.depth)), lv.depth),
        !.ndl = CarryForward(Has(attrs, "ndl"),
                             Some(LeadingInt(attrs.ndl)), lv.ndl),
        !.tts = CarryForward(Has(attrs, "tts"),
                             Some(LeadingInt(attrs.tts)), lv.tts),
        !.temperature = CarryForward(Has(attrs, "temp"),
                                     Some(Float(attrs.temp)),
                                     lv.temperature),
        !.stop_depth = CarryForward(Has(attrs, "stopdepth"),
                                    Some(Float(attrs.stopdepth)),
                                    lv.stop_depth),
        !.stop_time = CarryForward(Has(attrs, "stoptime"),
                                   Some(LeadingInt(attrs.stoptime)),
                                   lv.stop_time),
        !.ppo2 = CarryForward(Has(attrs, "dc_supplied_ppo2"),
                              Some(Float(attrs.dc_supplied_ppo2)),
                              lv.ppo2),
        !.ppo2_sensors =
            [i \in 1..3 |->
                CarryForward(
                    Has(attrs, SensorKey(i)) /\ IsFloat(attrs[SensorKey(i)]),
                    Some(Float(attrs[SensorKey(i)])),
                    lv.ppo2_sensors[i])],
        !.pressure =
            [i \in 1..Len(lv.pressure) |->
                CarryForward(
                    Has(attrs, PressureKey(i))
                        /\ IsFloat(attrs[PressureKey(i)]),
                    Some(Float(attrs[PressureKey(i)])),
                    lv.pressure[i])]]

\* ShearwaterParser.parse, lines 345-353: "Always 4 tanks in the log".
ShearwaterInitial ==
    [DiveSample(0, 0) EXCEPT
        !.ndl = Some(99),
        !.pressure = <<None, None, None, None>>,
        !.ppo2_sensors = <<None, None, None>>]

\* record.find(name) is not None and its text is not None.
HasText(record, name) == Has(record, name) /\ record[name].kind # "empty"

TankKey(i) ==
    <<"tank0pressurePSI", "tank1pressurePSI",
      "tank2pressurePSI", "tank3pressurePSI">>[i]

\* psi_value * 0.0689476, in units of 1e-9 bar (psi in hundredths).
PsiToBarFactor == 689476
PsiToBar(psi) == psi * PsiToBarFactor

\* currentTime is in milliseconds.
MillisPerSecond == 1000

\* The exception one <diveLogRecord> raises, "" if none (lines 356-359).
ShearwaterRecordError(record) ==
    IF ~HasText(record, "currentTime") THEN "NoDiveDataError"
    ELSE IF ~IsInt(record.currentTime) THEN "ValueError"
    ELSE IF HasText(record, "currentDepth") /\ ~IsFloat(record.currentDepth)
    THEN "ValueError"
    ELSE ""

\* A tank slot after a record: a non-numeric text clears it (line 423).
TankPressure(record, i, old) ==
    IF HasText(record, TankKey(i))
    THEN IF IsFloat(record[TankKey(i)])
         THEN Some(PsiToBar(Float(record[TankKey(i)])))
         ELSE None
    ELSE old

\* The snapshot after one <diveLogRecord> (lines 356-439).
ShearwaterUpdate(lv, record) ==
    [lv EXCEPT
        !.time = Int_(record.currentTime) \div MillisPerSecond,
        !.depth = CarryForward(HasText(record, "currentDepth"),
                               Some(Float(record.currentDepth)), lv.depth),
        !.ndl = CarryForward(
                    HasText(record, "currentNdl")
                        /\ IsDigit(record.currentNdl),
                    Some(Int_(record.currentNdl)), lv.ndl),
        !.tts = CarryForward(
                    HasText(record, "ttsMins") /\ IsDigit(record.ttsMins),
                    Some(Int_(record.ttsMins)), lv.tts),
        !.temperature = CarryForward(
                    HasText(record, "waterTemp")
                        /\ IsFloat(record.waterTemp),
                    Some(Float(record.waterTemp)), lv.temperature),
        !.stop_depth = CarryForward(
                    HasText(record, "firstStopDepth")
                        /\ IsFloat(record.firstStopDepth),
                    Some(Float(record.firstStopDepth)), lv.stop_depth),
        !.stop_time = CarryForward(
                    HasText(record, "firstStopTime")
                        /\ IsInt(record.firstStopTime),
                    Some(Int_(record.firstStopTime)), lv.stop_time),
        !.fractionO2 = CarryForward(
                    HasText(record, "fractionO2")
                        /\ IsFloat(record.fractionO2),
                    Some(Float(record.fractionO2)), lv.fractionO2),
        !.fractionHe = CarryForward(
                    HasText(record, "fractionHe")
                        /\ IsFloat(record.fractionHe),
                    Some(Float(record.fractionHe)), lv.fractionHe),
        !.ppo2 = CarryForward(
                    HasText(record, "averagePPO2")
                        /\ IsFloat(record.averagePPO2),
                    Some(Float(record.averagePPO2)), lv.ppo2),
        !.pressure =
            [i \in 1..4 |-> TankPressure(record, i, lv.pressure[i])],
        !.sac = CarryForward(
                    HasText(record, "sac") /\ IsFloat(record.sac),
                    Some(Float(record.sac)), lv.sac),
        !.gtr = CarryForward(
                    HasText(record, "gasTime") /\ IsInt(record.gasTime),
                    Some(Int_(record.gasTime)), lv.gtr)]

----------------------------------------------------------------------------
(* Subsurface gas-change events (lines 253-289). *)

\* The exception one <event> raises, "" if none (lines 258-264).
GasChangeError(event) ==
    IF ~(Has(event, "name") /\ event.name = "gaschange") THEN ""
    ELSE IF ~Has(event, "time") THEN "NoDiveDataError"
    ELSE IF ~IsTimeText(event.time) THEN "ValueError"
    ELSE IF \E k \in {"o2", "he"} : Has(event, k) /\ ~IsFloat(event[k])
    THEN "ValueError"
    ELSE ""

\* float(o2_str.replace("%", "")) / 100.0 if o2_str else None
FractionOfPercent(event, key) ==
    IF Has(event, key) THEN Some(Float(event[key]) \div 100) ELSE None

\* The dict appended for a gaschange event (lines 266-270).
GasChange(event) ==
    [time |-> ParseTimeToSeconds(event.time),
     fractionO2 |-> FractionOfPercent(event, "o2"),
     fractionHe |-> FractionOfPercent(event, "he")]

\* The gaschange events of the document, in document order.
CollectGasChanges(events) ==
    LET picked == SelectSeq(events,
                    LAMBDA ev : Has(ev, "name") /\ ev.name = "gaschange")
    IN  [k \in 1..Len(picked) |-> GasChange(picked[k])]

\* gas_changes.sort(key=lambda x: x["time"]): a stable sort by time.
RECURSIVE SortByTime(_)
SortByTime(seq) ==
    IF seq = <<>> THEN <<>>
    ELSE LET sorted == SortByTime(SubSeq(seq, 1, Len(seq) - 1))
             x == seq[Len(seq)]
             k == Cardinality({i \in 1..Len(sorted) :
                                    sorted[i].time <= x.time})
         IN  SubSeq(sorted, 1, k) \o <<x>>
                \o SubSeq(sorted, k + 1, Len(sorted))

UnsortedGasChanges(seq) == seq
SortedGasChanges(seq) == SortByTime(seq)

\* The index of the first sample at or after the gas change, 0 if none
\* (lines 279-286).
TargetIndex(profile, target_time) ==
    LET hits == {i \in 1..Len(profile) : profile[i].time >= target_time}
    IN  IF hits = {} THEN 0 ELSE SetMin(hits)

\* Lines 285-289: overwrite the gas of the target and of every later sample.
InjectOnlyTarget(profile, gas_change) ==
    LET target_index == TargetIndex(profile, gas_change.time)
    IN  [i \in 1..Len(profile) |->
            IF target_index # 0 /\ i = target_index
            THEN [profile[i] EXCEPT !.fractionO2 = gas_change.fractionO2,
                                    !.fractionHe = gas_change.fractionHe]
            ELSE profile[i]]
Inject(profile, gas_change) ==
    LET target_index == TargetIndex(profile, gas_change.time)
    IN  [i \in 1..Len(profile) |->
            IF target_index # 0 /\ i >= target_index
            THEN [profile[i] EXCEPT !.fractionO2 = gas_change.fractionO2,
                                    !.fractionHe = gas_change.fractionHe]
            ELSE profile[i]]

----------------------------------------------------------------------------
(* parse(): one step per source record, then the gas changes. *)

\* The exceptions a parse may end with; the built-in ones are not
\* DiveLogError subclasses (lines 38-59).
DiveLogErrors ==
    {"MultipleDivesError", "NoDiveDataError", "UnsupportedFormatError"}

NoError == [type |-> "", dive_count |-> None]
Raised(type) == [type |-> type, dive_count |-> None]
\* MultipleDivesError keeps the count and puts it in its message.
MultipleDivesError(dive_count) ==
    [type |-> "MultipleDivesError", dive_count |-> Some(dive_count)]

NoFile ==
    [ext |-> "", container |-> "wellformed", dive_sizes |-> <<>>,
     start |-> "ok", computer |-> TRUE]

ParseIdle ==
    /\ file = NoFile
    /\ doc = [format |-> "none", cylinders |-> 0, records |-> <<>>,
              events |-> <<>>]
    /\ parse_pc = "idle"
    /\ last_values = DiveSample(0, 0)
    /\ profile_data = <<>>
    /\ gas_changes = <<>>
    /\ parse_error = NoError

Fail(error) ==
    /\ parse_pc' = "failed"
    /\ parse_error' = Raised(error)

\* file_path.lower().endswith(ext) over the registry (lines 456-467).
Lower(ext) == IF ext = ".SSRF" THEN ".ssrf" ELSE ext
RegisteredParser(ext) ==
    IF Lower(ext) = ".ssrf" THEN "ssrf"
    ELSE IF Lower(ext) = ".xml" THEN "xml"
    ELSE "none"

\* The exception raised before the samples are looked for, NoError if none:
\* SubsurfaceParser.parse lines 159-189.
SubsurfaceOpenError(f) ==
    IF f.container # "wellformed" THEN Raised("ParseError")
    ELSE IF Len(f.dive_sizes) = 0 THEN Raised("NoDiveDataError")
    ELSE IF Len(f.dive_sizes) > 1 THEN MultipleDivesError(Len(f.dive_sizes))
    ELSE IF f.start # "ok" THEN Raised("NoDiveDataError")
    ELSE IF ~f.computer THEN Raised("NoDiveDataError")
    ELSE NoError

\* ShearwaterParser.parse lines 310-336: a container that fails to parse is
\* read again with its encoding declaration replaced.
ShearwaterOpenError(f) ==
    IF f.container = "malformed" THEN Raised("ParseError")
    ELSE IF Len(f.dive_sizes) = 0 THEN Raised("NoDiveDataError")
    ELSE IF f.start # "ok" THEN Raised("NoDiveDataError")
    ELSE NoError

\* parse_dive_log up to the search for samples (lines 463-467, 158-189,
\* 308-336).
ParseLog ==
    /\ parse_pc = "dispatch"
    /\ LET parser == RegisteredParser(file.ext)
           error == IF parser = "none" THEN Raised("UnsupportedFormatError")
                    ELSE IF parser = "ssrf" THEN SubsurfaceOpenError(file)
                    ELSE ShearwaterOpenError(file)
       IN  IF error # NoError
           THEN parse_pc' = "failed" /\ parse_error' = error
           ELSE parse_pc' = "open" /\ UNCHANGED parse_error
    /\ UNCHANGED <<file, doc, last_values, profile_data, gas_changes>>

\* Lines 191-209 and 339-353: no samples is an error; else the snapshot is
\* initialised.
ParseOpen ==
    /\ parse_pc = "open"
    /\ IF doc.records = <<>>
       THEN Fail("NoDiveDataError") /\ UNCHANGED last_values
       ELSE /\ parse_pc' = "samples"
            /\ last_values' = IF doc.format = "ssrf"
                              THEN SubsurfaceInitial(doc.cylinders)
                              ELSE ShearwaterInitial
            /\ UNCHANGED parse_error
    /\ UNCHANGED <<file, doc, profile_data, gas_changes>>

\* profile_data.append(copy.copy(last_values)): the appended samples would
\* share the snapshot's pressure and ppo2_sensors lists, and so show every
\* later in-place write to them.
AppendShallowCopy(profile, lv) ==
    [i \in 1..(Len(profile) + 1) |->
        IF i <= Len(profile)
        THEN [profile[i] EXCEPT !.pressure = lv.pressure,
                                !.ppo2_sensors = lv.ppo2_sensors]
        ELSE lv]
\* profile_data.append(copy.deepcopy(last_values)) (lines 251 and 441): the
\* new sample shares nothing with the snapshot, and the samples appended
\* before are not touched.
AppendSnapshot(profile, lv) == Append(profile, lv)

\* SubsurfaceParser: one iteration of "for s in samples" (lines 211-251).
ParseSample ==
    /\ parse_pc = "samples"
    /\ doc.format = "ssrf"
    /\ Len(profile_data) < Len(doc.records)
    /\ LET attrs == doc.records[Len(profile_data) + 1]
       IN  IF SubsurfaceSampleError(attrs) # ""
           THEN /\ Fail(SubsurfaceSampleError(attrs))
                /\ UNCHANGED <<last_values, profile_data>>
           ELSE /\ last_values' = SubsurfaceUpdate(last_values, attrs)
                /\ profile_data' = AppendSnapshot(profile_data,
                                                 last_values')
                /\ UNCHANGED <<parse_pc, parse_error>>
    /\ UNCHANGED <<file, doc, gas_changes>>

\* ShearwaterParser: one iteration of "for record in dive_records"
\* (lines 355-441).
ParseRecord ==
    /\ parse_pc = "samples"
    /\ doc.format = "xml"
    /\ Len(profile_data) < Len(doc.records)
    /\ LET record == doc.records[Len(profile_data) + 1]
       IN  IF ShearwaterRecordError(record) # ""
           THEN /\ Fail(ShearwaterRecordError(record))
                /\ UNCHANGED <<last_values, profile_data>>
           ELSE /\ last_values' = ShearwaterUpdate(last_values, record)
                /\ profile_data' = AppendSnapshot(profile_data,
                                                 last_values')
                /\ UNCHANGED <<parse_pc, parse_error>>
    /\ UNCHANGED <<file, doc, gas_changes>>

\* SubsurfaceParser: collect and sort the gas changes (lines 254-272).
ParseEvents ==
    /\ parse_pc = "samples"
    /\ doc.format = "ssrf"
    /\ Len(profile_data) = Len(doc.records)
    /\ LET bad == {k \in 1..Len(doc.events) :
                        GasChangeError(doc.events[k]) # ""}
       IN  IF bad # {}
           THEN /\ Fail(GasChangeError(doc.events[SetMin(bad)]))
                /\ UNCHANGED gas_changes
           ELSE /\ gas_changes' =
                        SortedGasChanges(CollectGasChanges(doc.events))
                /\ parse_pc' = "inject"
                /\ UNCHANGED parse_error
    /\ UNCHANGED <<file, doc, last_values, profile_data>>

\* SubsurfaceParser: one iteration of "for gas_change in gas_changes"
\* (lines 275-289).
InjectGasChange ==
    /\ parse_pc = "inject"
    /\ gas_changes # <<>>
    /\ profile_data' = Inject(profile_data, Head(gas_changes))
    /\ gas_changes' = Tail(gas_changes)
    /\ UNCHANGED <<file, doc, parse_pc, last_values, parse_error>>

\* return DiveData(samples=profile_data, ...) (lines 291-302, 443-453).
ParseReturn ==
    /\ \/ parse_pc = "inject" /\ gas_changes = <<>>
       \/ /\ parse_pc = "samples" /\ doc.format = "xml"
          /\ Len(profile_data) = Len(doc.records)
    /\ parse_pc' = "done"
    /\ UNCHANGED <<file, doc, last_values, profile_data, gas_changes,
                   parse_error>>

----------------------------------------------------------------------------
(* Bounds of the explored instants. *)

\* Video creation instants lie within this many hours of the dive start.
MaxSkewHours == 12

DiveStarts == {0, 86400}
DiveDurations == {0, 60, 3600, 7200, 10801}
SkewSeconds == {-1, 0, 1, 1800}

\* Inputs of main(): dives as parsed, videos as probed, command lines.
MainSampleLists ==
    {<<>>, <<0>>, <<0, 600, 1200>>, <<0, 1800, 3600, 7200>>}
VideoDurationsMs == {500, 30500, 600000}
MainArgs ==
    [match_video : {TRUE}, start : {None}, duration : {None},
     profile : BOOLEAN]
    \cup [match_video : {TRUE}, start : {Some(0)}, duration : {Some(60)},
          profile : {FALSE}]
    \cup [match_video : {FALSE}, start : {Some(-30), Some(0), Some(600),
                                          Some(1200), Some(7200)},
          duration : {Some(0), Some(60), Some(900)}, profile : BOOLEAN]
    \cup [match_video : {FALSE}, start : {None},
          duration : {None, Some(60)}, profile : BOOLEAN]

VideoTimes(start) ==
    {start + h * SecondsPerHour + d :
        h \in (-MaxSkewHours)..MaxSkewHours, d \in SkewSeconds}

----------------------------------------------------------------------------
(* main(): log parsing, segment selection, template loading, rendering. *)

\* A function that is not being called.
\* No video writer has been constructed.
NoWriter == [opened |-> 0, released |-> 0, written |-> 0]

RenderIdle ==
    /\ entry = "" /\ render_args = <<>> /\ render_pc = "idle"
    /\ compiled = None /\ writer = NoWriter /\ sec = 0 /\ idx = 0
    /\ frames = <<>> /\ render_error = ""

SegIdle ==
    /\ samples = <<>> /\ segment_start = 0 /\ segment_end = 0
    /\ seg_pc = "idle" /\ seg_outcome = NoOutcome

TzIdle ==
    /\ video_time = 0 /\ dive_start = 0 /\ dive_end = 0
    /\ tz_pc = "idle" /\ tz_tested = <<>> /\ tz_result = None

NoDive == [samples |-> <<>>, start_time |-> 0, end_time |-> 0]
NoVideo == [start_time |-> 0, duration_ms |-> 0]
NoJob == [kind |-> "none", samples |-> <<>>, duration |-> 0,
          time_offset |-> 0, segment_samples |-> None]

\* DiveData as the parsers build it: end_time = start_time + last time.
DiveData(smp, start) ==
    [samples |-> smp, start_time |-> start,
     end_time |-> start + (IF smp = <<>> THEN 0 ELSE smp[Len(smp)])]

\* int(video_metadata.duration), the duration being kept in milliseconds.
RoundedUpSeconds(duration_ms) == (duration_ms + 999) \div 1000
IntSeconds(duration_ms) == duration_ms \div 1000

MainIdle ==
    /\ args = [match_video |-> FALSE, start |-> None, duration |-> None,
               profile |-> FALSE]
    /\ main_pc = "idle"
    /\ dive_data = NoDive
    /\ video_metadata = NoVideo
    /\ timezone_offset = None
    /\ segment_start_offset = None
    /\ segment_end_offset = None
    /\ segment_duration = None
    /\ time_offset = 0
    /\ dive_samples = <<>>
    /\ main_error = ""
    /\ calls = <<>>
    /\ render_job = NoJob

\* print the error and return.
Exit(error) ==
    /\ main_pc' = "exit"
    /\ main_error' = error

\* Lines 69-87: parse the dive log; dive_samples defaults to the full dive.
MainParseLog ==
    /\ main_pc = "parse"
    /\ calls' = Append(calls, "parse_dive_log")
    /\ \/ \E smp \in MainSampleLists, start \in DiveStarts :
            /\ dive_data' = DiveData(smp, start)
            /\ IF smp = <<>>
               THEN Exit("no dive data") /\ UNCHANGED dive_samples
               ELSE /\ main_pc' = "mode"
                    /\ dive_samples' = Indices(smp)
                    /\ UNCHANGED main_error
       \/ \E error \in {"DiveLogError", "Exception"} :
            /\ Exit(error)
            /\ UNCHANGED <<dive_data, dive_samples>>
    /\ UNCHANGED <<args, video_metadata, timezone_offset,
                   segment_start_offset, segment_end_offset,
                   segment_duration, time_offset, render_job>>
    /\ UNCHANGED <<segVars, tzVars>>

\* Lines 89-103: read the video's metadata and start the offset search.
MainMatchVideo ==
    /\ main_pc = "mode"
    /\ args.match_video
    /\ \/ \E vt \in VideoTimes(dive_data.start_time),
             ms \in VideoDurationsMs :
            /\ video_metadata' = [start_time |-> vt, duration_ms |-> ms]
            /\ calls' = calls \o
                    <<"extract_video_metadata", "detect_timezone_offset">>
            /\ video_time' = vt
            /\ dive_start' = dive_data.start_time
            /\ dive_end' = dive_data.end_time
            /\ tz_pc' = "loop"
            /\ tz_tested' = <<>>
            /\ tz_result' = None
            /\ main_pc' = "detect"
            /\ UNCHANGED main_error
       \/ \E error \in {"VideoReadError", "VideoMetadataError"} :
            /\ calls' = Append(calls, "extract_video_metadata")
            /\ Exit(error)
            /\ UNCHANGED <<video_metadata, tzVars>>
    /\ UNCHANGED <<args, dive_data, timezone_offset, segment_start_offset,
                   segment_end_offset, segment_duration, time_offset,
                   dive_samples, render_job>>
    /\ UNCHANGED segVars

\* Lines 99-103: the value main binds to timezone_offset.
DetectedOffsetOrZero(result) == IF result = None THEN Some(0) ELSE result
DetectedOffset(result) == result

\* Lines 105-120: raise TimezoneOffsetError on None, else derive the
\* segment bounds from the detected offset.
MainOffsetDetected ==
    /\ main_pc = "detect"
    /\ tz_pc = "returned"
    /\ timezone_offset' = DetectedOffset(tz_result)
    /\ IF timezone_offset' = None
       THEN /\ Exit("TimezoneOffsetError")
            /\ UNCHANGED <<segment_start_offset, segment_end_offset,
                           segment_duration>>
       ELSE LET video_start_utc ==
                    video_metadata.start_time
                        + Val(timezone_offset') * SecondsPerHour
                start == video_start_utc - dive_data.start_time
            IN  /\ segment_start_offset' = Some(start)
                /\ segment_end_offset' =
                        Some(start + IntSeconds(video_metadata.duration_ms))
                /\ segment_duration' =
                        Some(IntSeconds(video_metadata.duration_ms))
                /\ main_pc' = "extract"
                /\ UNCHANGED main_error
    /\ UNCHANGED <<args, dive_data, video_metadata, time_offset,
                   dive_samples, calls, render_job>>
    /\ UNCHANGED <<segVars, tzVars>>

\* Lines 149-153: manual segment mode (--start with --duration).
MainManualSegment ==
    /\ main_pc = "mode"
    /\ ~args.match_video
    /\ args.start # None
    /\ segment_start_offset' = args.start
    /\ segment_end_offset' = Some(Val(args.start) + Val(args.duration))
    /\ segment_duration' = args.duration
    /\ main_pc' = "extract"
    /\ UNCHANGED <<args, dive_data, video_metadata, timezone_offset,
                   time_offset, dive_samples, main_error, calls,
                   render_job>>
    /\ UNCHANGED <<segVars, tzVars>>

\* Neither --match-video nor --start: the full dive is rendered.
MainFullDive ==
    /\ main_pc = "mode"
    /\ ~args.match_video
    /\ args.start = None
    /\ main_pc' = "template"
    /\ UNCHANGED <<args, dive_data, video_metadata, timezone_offset,
                   segment_start_offset, segment_end_offset,
                   segment_duration, time_offset, dive_samples, main_error,
                   calls, render_job>>
    /\ UNCHANGED <<segVars, tzVars>>

\* Lines 126-147 and 160-175: extract the segment; an error ends the run.
MainExtractSegment ==
    /\ main_pc = "extract"
    /\ calls' = Append(calls, "extract_dive_segment")
    /\ LET outcome ==
                ExtractDiveSegment(dive_data.samples,
                                   Val(segment_start_offset),
                                   Val(segment_end_offset))
       IN  IF outcome.kind = "ok"
           THEN /\ dive_samples' = outcome.samples
                /\ time_offset' = Val(segment_start_offset)
                /\ main_pc' = "template"
                /\ UNCHANGED main_error
           ELSE /\ Exit(outcome.kind)
                /\ UNCHANGED <<dive_samples, time_offset>>
    /\ UNCHANGED <<args, dive_data, video_metadata, timezone_offset,
                   segment_start_offset, segment_end_offset,
                   segment_duration, render_job>>
    /\ UNCHANGED <<segVars, tzVars>>

\* Lines 177-190: load the template of the selected overlay kind.
MainLoadTemplate ==
    /\ main_pc = "template"
    /\ calls' = Append(calls, "load_template")
    /\ \/ main_pc' = "generate" /\ UNCHANGED main_error
       \/ \E error \in {"TemplateError", "Exception"} : Exit(error)
    /\ UNCHANGED <<args, dive_data, video_metadata, timezone_offset,
                   segment_start_offset, segment_end_offset,
                   segment_duration, time_offset, dive_samples, render_job>>
    /\ UNCHANGED <<segVars, tzVars>>

\* Lines 197-203: the duration of the output video.
OutputDuration ==
    IF segment_duration # None THEN Val(segment_duration)
    ELSE IF args.duration # None THEN Val(args.duration)
    ELSE dive_data.samples[dive_samples[Len(dive_samples)]] + 1

\* Lines 212-223: hand the samples to the renderer of the overlay kind.
MainGenerate ==
    /\ main_pc = "generate"
    /\ IF args.profile
       THEN /\ calls' = Append(calls, "generate_profile_overlay_video")
            /\ render_job' =
                    [kind |-> "profile",
                     samples |-> Indices(dive_data.samples),
                     duration |-> OutputDuration,
                     time_offset |-> time_offset,
                     segment_samples |->
                        IF time_offset > 0 THEN Some(dive_samples)
                                           ELSE None]
       ELSE /\ calls' = Append(calls, "generate_overlay_video")
            /\ render_job' =
                    [kind |-> "computer", samples |-> dive_samples,
                     duration |-> OutputDuration,
                     time_offset |-> time_offset,
                     segment_samples |-> None]
    /\ \/ Exit("")
       \/ Exit("Exception")
    /\ UNCHANGED <<args, dive_data, video_metadata, timezone_offset,
                   segment_start_offset, segment_end_offset,
                   segment_duration, time_offset, dive_samples>>
    /\ UNCHANGED <<segVars, tzVars>>

InitMain ==
    /\ args \in MainArgs
    /\ main_pc = "parse"
    /\ dive_data = NoDive
    /\ video_metadata = NoVideo
    /\ timezone_offset = None
    /\ segment_start_offset = None
    /\ segment_end_offset = None
    /\ segment_duration = None
    /\ time_offset = 0
    /\ dive_samples = <<>>
    /\ main_error = ""
    /\ calls = <<>>
    /\ render_job = NoJob
    /\ SegIdle
    /\ TzIdle
    /\ ParseIdle
    /\ RenderIdle

NextMain ==
    \/ MainParseLog /\ UNCHANGED <<parseVars, renderVars>>
    \/ MainMatchVideo /\ UNCHANGED <<parseVars, renderVars>>
    \/ TzTest /\ UNCHANGED <<segVars, mainVars, parseVars, renderVars>>
    \/ TzReturnNone /\ UNCHANGED <<segVars, mainVars, parseVars, renderVars>>
    \/ MainOffsetDetected /\ UNCHANGED <<parseVars, renderVars>>
    \/ MainManualSegment /\ UNCHANGED <<parseVars, renderVars>>
    \/ MainFullDive /\ UNCHANGED <<parseVars, renderVars>>
    \/ MainExtractSegment /\ UNCHANGED <<parseVars, renderVars>>
    \/ MainLoadTemplate /\ UNCHANGED <<parseVars, renderVars>>
    \/ MainGenerate /\ UNCHANGED <<parseVars, renderVars>>

SpecMain == InitMain /\ [][NextMain]_vars

----------------------------------------------------------------------------
(* Each function called on its own. *)

InitSegment ==
    /\ samples \in SampleLists
    /\ segment_start \in SegmentBounds
    /\ segment_end \in SegmentBounds
    /\ seg_pc = "call"
    /\ seg_outcome = NoOutcome
    /\ TzIdle
    /\ MainIdle
    /\ ParseIdle
    /\ RenderIdle

Extract ==
    /\ seg_pc = "call"
    /\ seg_outcome' = ExtractDiveSegment(samples, segment_start, segment_end)
    /\ seg_pc' = "done"
    /\ UNCHANGED <<samples, segment_start, segment_end>>
    /\ UNCHANGED <<tzVars, mainVars, parseVars, renderVars>>

InitTimezone ==
    /\ dive_start \in DiveStarts
    /\ dive_end \in {dive_start + d : d \in DiveDurations}
    /\ video_time \in VideoTimes(dive_start)
    /\ tz_pc = "loop"
    /\ tz_tested = <<>>
    /\ tz_result = None
    /\ SegIdle
    /\ MainIdle
    /\ ParseIdle
    /\ RenderIdle


NextSegment == Extract

SpecSegment == InitSegment /\ [][NextSegment]_vars

NextTimezone ==
    \/ TzTest /\ UNCHANGED <<segVars, mainVars, parseVars, renderVars>>
    \/ TzReturnNone /\ UNCHANGED <<segVars, mainVars, parseVars, renderVars>>

SpecTimezone == InitTimezone /\ [][NextTimezone]_vars

----------------------------------------------------------------------------
(* The explored dive log documents. *)

\* Records per document whose fields vary / whose times vary; events.
MaxFieldRecords == 2
MaxRecords == 3
MaxEvents == 2

NoAttrs == [k \in {} |-> Junk]

\* What one Subsurface <sample> may carry besides its time.
SubsurfaceAttrChoices ==
    {NoAttrs}
    \cup {"depth" :> v : v \in {Dec(1230), Num(20), Junk}}
    \cup {"ndl" :> v : v \in {Clock(<<5, 0>>), Num(7)}}
    \cup {"tts" :> Clock(<<3, 0>>), "temp" :> Dec(1850),
          "stopdepth" :> Dec(600), "stoptime" :> Clock(<<1, 0>>),
          "dc_supplied_ppo2" :> Dec(120)}
    \cup {"sensor1" :> v : v \in {Dec(110), Junk}}
    \cup {"sensor2" :> Dec(115), "sensor3" :> Dec(105)}
    \cup {"pressure0" :> v : v \in {Dec(20050), Num(180), Junk}}
    \cup {"pressure1" :> Num(150), "pressure2" :> Num(99)}

\* What one Shearwater <diveLogRecord> may carry besides its time.
ShearwaterElementChoices ==
    {NoAttrs}
    \cup {"currentDepth" :> v : v \in {Dec(1230), Num(20), Junk}}
    \cup {"currentNdl" :> v : v \in {Num(5), Dec(550), Junk}}
    \cup {"ttsMins" :> Num(3)}
    \cup {"waterTemp" :> v : v \in {Num(18), Junk}}
    \cup {"firstStopDepth" :> v : v \in {Num(6), Junk}}
    \cup {"firstStopTime" :> v : v \in {Num(1), Dec(150), Junk}}
    \cup {"fractionO2" :> v : v \in {Dec(32), Dec(21)}}
    \cup {"fractionHe" :> Dec(35), "averagePPO2" :> Dec(120)}
    \cup {"tank0pressurePSI" :> v :
            v \in {Num(30), Num(28), Junk, EmptyText}}
    \cup {"tank1pressurePSI" :> Num(25), "tank2pressurePSI" :> Num(20),
          "tank3pressurePSI" :> Junk}
    \cup {"sac" :> v : v \in {Dec(1550), Junk}}
    \cup {"gasTime" :> v : v \in {Num(45), Junk}}

\* A Subsurface document whose samples differ in the attributes they carry;
\* the times rise.
SubsurfaceFieldDoc(c, choice) ==
    [format |-> "ssrf", cylinders |-> c,
     records |-> [i \in 1..Len(choice) |->
                    ("time" :> Clock(<<0, 10 * (i - 1)>>)) @@ choice[i]],
     events |-> <<>>]

\* A Shearwater document whose records differ in the elements they carry.
ShearwaterFieldDoc(choice) ==
    [format |-> "xml", cylinders |-> 0,
     records |-> [i \in 1..Len(choice) |->
                    ("currentTime" :> Num(10000 * (i - 1) + 500))
                        @@ choice[i]],
     events |-> <<>>]

\* Documents whose records differ in their times, with gas-change events.
TimelineTexts == {Clock(<<0, 0>>), Clock(<<0, 30>>), Clock(<<1, 0>>)}
TimelineMillis == {Num(0), Num(30500), Num(60000)}

EventChoices ==
    {[name |-> "gaschange", time |-> tm, o2 |-> Num(32)] :
        tm \in {Clock(<<0, 30>>), Clock(<<0, 45>>), Clock(<<2, 0>>)}}
    \cup {[name |-> "gaschange", time |-> Clock(<<1, 0>>), o2 |-> Num(21),
           he |-> Num(35)]}
    \cup {[name |-> "heading", time |-> Clock(<<0, 30>>)]}

SubsurfaceTimelineDoc(times, evs) ==
    [format |-> "ssrf", cylinders |-> 0,
     records |-> [i \in 1..Len(times) |-> [time |-> times[i]]],
     events |-> evs]

ShearwaterTimelineDoc(times) ==
    [format |-> "xml", cylinders |-> 0,
     records |-> [i \in 1..Len(times) |-> [currentTime |-> times[i]]],
     events |-> <<>>]

\* Single-record documents exercising every shape of the time text.
TimeFormDocs ==
    {[format |-> "ssrf", cylinders |-> 0, records |-> <<rec>>,
      events |-> <<>>] :
        rec \in {[time |-> tm] :
                    tm \in {Num(45), Clock(<<0, 1, 30>>),
                            Clock(<<1, 2, 3, 4>>), Dec(150), Junk}}
                \cup {[depth |-> Dec(1230)]}}
    \cup {[format |-> "ssrf", cylinders |-> 0,
           records |-> <<[time |-> Clock(<<0, 0>>)]>>, events |-> <<ev>>] :
        ev \in {[name |-> "gaschange", o2 |-> Num(32)],
                [name |-> "gaschange", time |-> Junk, o2 |-> Num(32)],
                [name |-> "gaschange", time |-> Clock(<<0, 0>>),
                 o2 |-> Junk],
                [name |-> "gaschange", time |-> Clock(<<0, 0>>)]}}
    \cup {[format |-> "xml", cylinders |-> 0, records |-> <<rec>>,
           events |-> <<>>] :
        rec \in {[currentTime |-> tm] : tm \in {EmptyText, Dec(150), Junk}}
                \cup {[currentDepth |-> Dec(1230)]}}

IsDocument(d) ==
    \/ \E c \in {0, 2}, n \in 1..MaxFieldRecords :
        \E choice \in [1..n -> SubsurfaceAttrChoices] :
            d = SubsurfaceFieldDoc(c, choice)
    \/ \E n \in 1..MaxFieldRecords :
        \E choice \in [1..n -> ShearwaterElementChoices] :
            d = ShearwaterFieldDoc(choice)
    \/ \E n \in 0..MaxRecords, m \in 0..MaxEvents :
        \E times \in [1..n -> TimelineTexts], evs \in [1..m -> EventChoices] :
            d = SubsurfaceTimelineDoc(times, evs)
    \/ \E n \in 0..MaxRecords :
        \E times \in [1..n -> TimelineMillis] :
            d = ShearwaterTimelineDoc(times)
    \/ d \in TimeFormDocs

\* Dive records per file.
MaxDives == 2

RECURSIVE SumSeq(_)
SumSeq(seq) == IF seq = <<>> THEN 0 ELSE Head(seq) + SumSeq(Tail(seq))

\* How the elements of a document may be spread over its dive records:
\* doc.records lists the <sample>s of the dive's divecomputer (line 191),
\* or every <diveLogRecord> of the document (line 339), in document order.
DiveSizes(total) ==
    {sizes \in UNION {[1..n -> 0..total] : n \in 0..MaxDives} :
        sizes = <<>> \/ SumSeq(sizes) = total}

Extensions(d) ==
    IF d.format = "ssrf" THEN {".ssrf", ".SSRF", ".txt"} ELSE {".xml", ".txt"}

\* A well-formed single-dive file holding the document.
WholeFile(d) ==
    [ext |-> IF d.format = "ssrf" THEN ".ssrf" ELSE ".xml",
     container |-> "wellformed", dive_sizes |-> <<Len(d.records)>>,
     start |-> "ok", computer |-> TRUE]

\* Files that differ in everything around the samples.
EnvelopeBodies ==
    {SubsurfaceTimelineDoc(<<Clock(<<0, 0>>), Clock(<<0, 30>>)>>, <<>>),
     ShearwaterTimelineDoc(<<Num(0), Num(30500), Num(0)>>)}

EnvelopeFiles(d) ==
    [ext : Extensions(d),
     container : {"wellformed", "utf16decl", "malformed"},
     dive_sizes : DiveSizes(Len(d.records)),
     start : {"ok", "missing", "bad"},
     computer : BOOLEAN]

InitParser ==
    /\ \/ IsDocument(doc) /\ file = WholeFile(doc)
       \/ doc \in EnvelopeBodies /\ file \in EnvelopeFiles(doc)
    /\ parse_pc = "dispatch"
    /\ last_values = DiveSample(0, 0)
    /\ profile_data = <<>>
    /\ gas_changes = <<>>
    /\ parse_error = NoError
    /\ SegIdle
    /\ TzIdle
    /\ MainIdle
    /\ RenderIdle

NextParser ==
    \/ ParseLog /\ UNCHANGED <<segVars, tzVars, mainVars, renderVars>>
    \/ ParseOpen /\ UNCHANGED <<segVars, tzVars, mainVars, renderVars>>
    \/ ParseSample /\ UNCHANGED <<segVars, tzVars, mainVars, renderVars>>
    \/ ParseRecord /\ UNCHANGED <<segVars, tzVars, mainVars, renderVars>>
    \/ ParseEvents /\ UNCHANGED <<segVars, tzVars, mainVars, renderVars>>
    \/ InjectGasChange /\ UNCHANGED <<segVars, tzVars, mainVars, renderVars>>
    \/ ParseReturn /\ UNCHANGED <<segVars, tzVars, mainVars, renderVars>>

SpecParser == InitParser /\ [][NextParser]_vars

----------------------------------------------------------------------------
(* profile_graph.py: the profile-graph template compiler and renderer. *)

\* Samples per rendered list, direct frame requests per compiled template,
\* items per field-panel template.
MaxRenderSamples == 3
MaxFrameCalls == 2
MaxItems == 1

\* Sample times lie in 0..MaxRenderSamples - 1; frames are requested from
\* one second before to one second after.
RenderTimes == 0..(MaxRenderSamples - 1)
FrameTimes == (-1)..MaxRenderSamples

SetMax(S) == CHOOSE x \in S : \A y \in S : y <= x

\* A profile sample: time in seconds, depth in hundredths of a metre.
ProfileSample(time, depth) == DiveSample(time, depth)

RequiredGraphFields == {"position", "width", "height", "line", "indicator"}

\* _M_TO_FT = 3.28084, in hundred-thousandths.
MetresToFeetFactor == 328084
HundredThousandths == 100000

\* The ValueError compile_profile_template raises, "" if none
\* (lines 650-668).
BadDurationStrict(duration) == duration < 0
BadDuration(duration) == duration <= 0

ProfileCompileError(template, smp, duration) ==
    IF smp = <<>> THEN "ValueError: no dive samples"
    ELSE IF Len(smp) = 1 THEN "ValueError: only 1 sample"
    ELSE IF BadDuration(duration) THEN "ValueError: invalid duration"
    ELSE IF "graph" \notin template.sections
    THEN "ValueError: missing 'graph' section"
    ELSE IF RequiredGraphFields \ template.graph # {}
    THEN "ValueError: graph section missing fields"
    ELSE ""

\* str.lower() on the unit texts used.
LowerUnit(unit) ==
    IF unit = "FT" THEN "ft"
    ELSE IF unit = "F" THEN "f"
    ELSE IF unit = "C" THEN "c"
    ELSE unit

\* The units override asks for feet (lines 671-673); the override is
\* given by its depth unit.
UseImperial(units_override) ==
    /\ units_override # None
    /\ LowerUnit(Val(units_override)) \in {"ft", "feet"}

\* max(s.depth for s in dive_samples), converted (lines 676-681).
MaxDepth(smp, units_override) ==
    LET deepest == SetMax({Val(smp[i].depth) :
                                i \in 1..Len(smp)})
    IN  IF UseImperial(units_override)
        THEN (deepest * MetresToFeetFactor) \div HundredThousandths
        ELSE deepest

\* The _CompiledProfileTemplate returned (lines 800-807).
CompiledProfileTemplate(smp, duration, units_override) ==
    [dive_samples |-> smp,
     max_depth |-> MaxDepth(smp, units_override),
     total_duration |-> duration,
     use_imperial |-> UseImperial(units_override)]

\* render_profile_frame's sample lookup (lines 829-839): the index of the
\* sample the indicator is drawn at, 0 if none is drawn.
FirstLaterSample(smp, current_time) ==
    {i \in 1..Len(smp) : smp[i].time > current_time}

CurrentSample(smp, current_time) ==
    LET later == FirstLaterSample(smp, current_time)
        scanned == IF later = {} THEN Len(smp)
                   ELSE SetMin(later) - 1
    IN  IF scanned = 0 /\ smp # <<>> THEN 1 ELSE scanned

\* compile_profile_template called on its own.
CompileProfile ==
    /\ entry = "compile_profile_template"
    /\ render_pc = "call"
    /\ LET error == ProfileCompileError(render_args.template,
                        render_args.dive_samples, render_args.duration)
       IN  IF error # ""
           THEN /\ render_pc' = "raised"
                /\ render_error' = error
                /\ UNCHANGED compiled
           ELSE /\ render_pc' = "compiled"
                /\ compiled' = Some(CompiledProfileTemplate(
                        render_args.dive_samples, render_args.duration,
                        render_args.units_override))
                /\ UNCHANGED render_error
    /\ UNCHANGED <<entry, render_args, writer, sec, idx, frames>>

\* render_profile_frame(compiled, current_time), for any requested time.
RenderProfileFrame ==
    /\ entry = "compile_profile_template"
    /\ render_pc = "compiled"
    /\ Len(frames) < MaxFrameCalls
    /\ \E current_time \in FrameTimes :
        frames' = Append(frames,
            [time |-> current_time,
             sample |-> CurrentSample(Val(compiled).dive_samples,
                                      current_time)])
    /\ UNCHANGED <<entry, render_args, render_pc, compiled, writer, sec,
                   idx, render_error>>

\* total_seconds (lines 884-888, and overlay.py lines 326-330).
TotalSeconds(smp, duration) ==
    IF duration # None THEN Val(duration)
    ELSE IF smp # <<>> THEN smp[Len(smp)].time + 1
    ELSE 0

\* full_dive_duration (line 891).
FullDiveDuration(smp) == IF smp # <<>> THEN smp[Len(smp)].time + 1 ELSE 0

\* cv2.VideoWriter(...) / out.write, fps times / out.release().
Opened(w) == [w EXCEPT !.opened = @ + 1]
Written(w, fps) == [w EXCEPT !.written = @ + fps]
Released(w) == [w EXCEPT !.released = @ + 1]

\* generate_profile_overlay_video up to the frame loop (lines 884-908):
\* the template is compiled, then the writer is constructed.
GenerateProfileStart ==
    /\ entry = "generate_profile_overlay_video"
    /\ render_pc = "call"
    /\ LET smp == render_args.dive_samples
           error == ProfileCompileError(render_args.template, smp,
                                        FullDiveDuration(smp))
       IN  IF error # ""
           THEN /\ render_pc' = "raised"
                /\ render_error' = error
                /\ UNCHANGED <<compiled, writer>>
           ELSE /\ compiled' = Some(CompiledProfileTemplate(smp,
                        FullDiveDuration(smp), render_args.units_override))
                /\ writer' = Opened(writer)
                /\ render_pc' = "frames"
                /\ UNCHANGED render_error
    /\ UNCHANGED <<entry, render_args, sec, idx, frames>>

\* One iteration of "for sec in range(total_seconds)" (lines 911-926);
\* rendering, converting or writing the frame may raise.
ProfileFrame ==
    /\ entry = "generate_profile_overlay_video"
    /\ render_pc = "frames"
    /\ sec < TotalSeconds(render_args.dive_samples, render_args.duration)
    /\ \/ /\ frames' = Append(frames,
                [time |-> sec + render_args.time_offset,
                 sample |-> CurrentSample(Val(compiled).dive_samples,
                                          sec + render_args.time_offset)])
          /\ writer' = Written(writer, render_args.fps)
          /\ sec' = sec + 1
          /\ UNCHANGED <<render_pc, render_error>>
       \/ /\ render_pc' = "raised"
          /\ render_error' = "Exception"
          /\ UNCHANGED <<frames, writer, sec>>
    /\ UNCHANGED <<entry, render_args, compiled, idx>>

\* out.release() after the loop (line 928).
ProfileRelease ==
    /\ entry = "generate_profile_overlay_video"
    /\ render_pc = "frames"
    /\ sec >= TotalSeconds(render_args.dive_samples, render_args.duration)
    /\ writer' = Released(writer)
    /\ render_pc' = "done"
    /\ UNCHANGED <<entry, render_args, compiled, sec, idx, frames,
                   render_error>>

----------------------------------------------------------------------------
(* overlay.py: the field-panel template compiler and renderer. *)

\* A displayed value: a number (hundredths), a text, or the pieces of an
\* evaluated compute expression.
Number(n) == [kind |-> "number", n |-> n, s |-> "", parts |-> <<>>]
Text(str) == [kind |-> "text", n |-> 0, s |-> str, parts |-> <<>>]
Pieces(parts) == [kind |-> "pieces", n |-> 0, s |-> "", parts |-> parts]

\* Tokens of a compute expression: literal text and {field:format}.
Lit(str) == [ref |-> FALSE, s |-> str, field |-> "", format |-> ""]
Ref(field, format) ==
    [ref |-> TRUE, s |-> "", field |-> field, format |-> format]

\* _SOURCE_UNITS (lines 11-15).
Quantities == {"depth", "pressure", "temperature"}
SourceUnit(quantity) ==
    IF quantity = "depth" THEN "m"
    ELSE IF quantity = "pressure" THEN "bar"
    ELSE "C"

\* str.strip() on the unit labels used.
Strip(str) == IF str = " " THEN "" ELSE str

\* _build_converter (lines 27-38): the converter's name, None if none.
BuildConverterAnyTarget(quantity, src_unit, target_unit) ==
    IF target_unit = "" THEN None ELSE Some("any")

BuildConverter(quantity, src_unit, target_unit) ==
    IF target_unit = "" THEN None
    ELSE IF quantity = "temperature"
    THEN IF LowerUnit(src_unit) = "c"
            /\ LowerUnit(target_unit) \in {"f", "fahrenheit"}
         THEN Some("C->F") ELSE None
    ELSE IF <<quantity, src_unit, LowerUnit(target_unit)>>
                = <<"depth", "m", "ft">>
    THEN Some("m->ft")
    ELSE IF <<quantity, src_unit, LowerUnit(target_unit)>>
                = <<"pressure", "bar", "psi">>
    THEN Some("bar->psi")
    ELSE None

\* The converters applied to a number in hundredths; anything that is not
\* a number passes through (lines 18-24, 34, 38).
Convert(conv, value) ==
    IF value.kind # "number" THEN value
    ELSE IF conv = "m->ft"
    THEN Number((value.n * MetresToFeetFactor) \div HundredThousandths)
    ELSE IF conv = "bar->psi"
    THEN Number(value.n * 14 + (value.n * 5037738) \div 10000000)
    ELSE Number((value.n * 9) \div 5 + 3200)

\* The quantity class of a field (lines 182-189), None if unclassified.
FieldQuantity(field_name) ==
    IF field_name \in {"pressure[0]", "pressure[1]", "pressure[9]"}
    THEN Some("pressure")
    ELSE IF field_name \in {"depth", "stop_depth"} THEN Some("depth")
    ELSE IF field_name = "temperature" THEN Some("temperature")
    ELSE None

\* units_map: the template's units updated by the non-empty overrides
\* (lines 168-170).
MergeUnits(units, units_override) ==
    LET given == {k \in DOMAIN units_override : units_override[k] # ""}
    IN  [k \in given |-> units_override[k]] @@ units

\* The data_items entry of one template item (lines 121-166), before the
\* converters are resolved; None if the item is skipped.
DataItem(item) ==
    IF item.type # "data" THEN None
    ELSE IF item.field = None /\ item.compute = None THEN None
    ELSE IF ~item.positioned THEN None
    ELSE Some([field |-> item.field, compute |-> item.compute,
               unit |-> item.unit, fallback |-> item.fallback])

\* Lines 173-200: the converter and the final unit label of a data item.
ResolveUnits(it, units_map) ==
    LET quantity == IF it.field = None THEN None
                    ELSE FieldQuantity(Val(it.field))
        target == IF quantity # None /\ Val(quantity) \in DOMAIN units_map
                  THEN units_map[Val(quantity)] ELSE ""
        conv == IF quantity = None \/ target = "" THEN None
                ELSE BuildConverter(Val(quantity),
                                    SourceUnit(Val(quantity)), target)
    IN  [field |-> it.field, compute |-> it.compute, unit |-> it.unit,
         fallback |-> it.fallback,
         convert |-> conv,
         final_unit |-> IF conv # None /\ Strip(it.unit) # ""
                        THEN target ELSE it.unit]

\* _compile_template's data_items (lines 104-200).
CompileItems(template, units_override) ==
    LET kept == SelectSeq(template.items,
                          LAMBDA item : DataItem(item) # None)
        units_map == MergeUnits(template.units, units_override)
    IN  [k \in 1..Len(kept) |->
            ResolveUnits(Val(DataItem(kept[k])), units_map)]

\* getattr(data, field_name, None) for the scalar fields of a sample.
ScalarAttrs ==
    {"depth", "ndl", "tts", "temperature", "stop_depth", "stop_time",
     "fractionO2", "fractionHe"}
GetAttr(data, field_name) ==
    IF field_name \in ScalarAttrs THEN data[field_name] ELSE None

\* int(field[9:-1]) of "pressure[i]".
PressureIndex(field) ==
    IF field = "pressure[0]" THEN 0
    ELSE IF field = "pressure[1]" THEN 1
    ELSE 9

\* extract_value_from_data (lines 239-260): None or Some(value).
ExtractValue(field, data) ==
    IF field = "time"
    THEN Some([kind |-> "time", n |-> data.time, s |-> "",
               parts |-> <<data.time \div 60, data.time % 60>>])
    ELSE IF field \in {"pressure[0]", "pressure[1]", "pressure[9]"}
    THEN IF PressureIndex(field) >= Len(data.pressure) THEN None
         ELSE IF data.pressure[PressureIndex(field) + 1] = None THEN None
         ELSE Some(Number(Val(data.pressure[PressureIndex(field) + 1])))
    ELSE IF GetAttr(data, field) = None THEN None
    ELSE Some(Number(Val(GetAttr(data, field))))

\* One formatted reference (lines 290-310); value in hundredths.
Formatted(value, format) ==
    IF format = "02%" THEN [style |-> "percent", n |-> value, s |-> ""]
    ELSE IF format = "1f"
    THEN [style |-> "tenths", n |-> (value + 5) \div 10, s |-> ""]
    ELSE IF format = "0f"
    THEN [style |-> "units", n |-> (value + 50) \div 100, s |-> ""]
    ELSE [style |-> "str", n |-> value, s |-> ""]

Literal(token) == [style |-> "literal", n |-> 0, s |-> token.s]
Unresolved(token) == [style |-> "unresolved", n |-> 0, s |-> token.field]

\* evaluate_compute_expression (lines 263-316), reference by reference:
\* None as soon as a referenced field is None, else the substituted text.
RECURSIVE SubstituteSkippingMissing(_, _, _, _)
SubstituteSkippingMissing(expr, data, k, result) ==
    IF k > Len(expr) THEN Some(Pieces(result))
    ELSE IF ~expr[k].ref
    THEN SubstituteSkippingMissing(expr, data, k + 1, result)
    ELSE IF GetAttr(data, expr[k].field) = None
    THEN SubstituteSkippingMissing(expr, data, k + 1, result)
    ELSE SubstituteSkippingMissing(expr, data, k + 1,
            [j \in 1..Len(expr) |->
                IF expr[j] = expr[k]
                THEN Formatted(Val(GetAttr(data, expr[k].field)),
                               expr[k].format)
                ELSE result[j]])

RECURSIVE Substitute(_, _, _, _)
Substitute(expr, data, k, result) ==
    IF k > Len(expr) THEN Some(Pieces(result))
    ELSE IF ~expr[k].ref THEN Substitute(expr, data, k + 1, result)
    ELSE IF GetAttr(data, expr[k].field) = None THEN None
    ELSE Substitute(expr, data, k + 1,
            [j \in 1..Len(expr) |->
                IF expr[j] = expr[k]
                THEN Formatted(Val(GetAttr(data, expr[k].field)),
                               expr[k].format)
                ELSE result[j]])

EvaluateComputeExpression(compute_expr, data) ==
    Substitute(compute_expr, data, 1,
        [j \in 1..Len(compute_expr) |->
            IF compute_expr[j].ref THEN Unresolved(compute_expr[j])
            ELSE Literal(compute_expr[j])])

\* _render_dynamic_frame (lines 205-236): what each data item displays.
RenderItem(it, data) ==
    LET resolved == IF it.compute # None
                    THEN EvaluateComputeExpression(Val(it.compute), data)
                    ELSE ExtractValue(Val(it.field), data)
        value == IF resolved = None THEN Text(it.fallback)
                 ELSE Val(resolved)
    IN  [value |-> IF it.convert # None
                   THEN Convert(Val(it.convert), value) ELSE value,
         unit |-> it.final_unit]

RenderDynamicFrame(data, data_items) ==
    [k \in 1..Len(data_items) |-> RenderItem(data_items[k], data)]

\* The sample pointer after "while idx + 1 < len(dive_samples) and
\* dive_samples[idx + 1].time <= sec" (lines 340-341); idx counts from 0.
RECURSIVE AdvanceIndex(_, _, _)
AdvanceIndex(smp, i, second) ==
    IF i + 1 < Len(smp) /\ smp[i + 2].time <= second
    THEN AdvanceIndex(smp, i + 1, second)
    ELSE i

\* generate_overlay_video: the writer is constructed first (lines 320-322).
OverlayOpenWriter ==
    /\ entry = "generate_overlay_video"
    /\ render_pc = "call"
    /\ writer' = Opened(writer)
    /\ render_pc' = "compile"
    /\ UNCHANGED <<entry, render_args, compiled, sec, idx, frames,
                   render_error>>

\* _compile_template (line 324); a font or colour that does not load
\* raises out of it.
OverlayCompile ==
    /\ entry = "generate_overlay_video"
    /\ render_pc = "compile"
    /\ IF ~render_args.template.loadable
       THEN /\ render_pc' = "raised"
            /\ render_error' = "OSError"
            /\ UNCHANGED compiled
       ELSE /\ compiled' = Some([data_items |->
                    CompileItems(render_args.template,
                                 render_args.units_override)])
            /\ render_pc' = "frames"
            /\ UNCHANGED render_error
    /\ UNCHANGED <<entry, render_args, writer, sec, idx, frames>>

\* One iteration of "for sec in range(total_seconds)" (lines 338-354): no
\* sample breaks out of the loop; rendering or writing may raise.
OverlayFrame ==
    /\ entry = "generate_overlay_video"
    /\ render_pc = "frames"
    /\ sec < TotalSeconds(render_args.dive_samples, render_args.duration)
    /\ LET smp == render_args.dive_samples
           next_idx == AdvanceIndex(smp, idx, sec)
       IN  IF smp = <<>>
           THEN /\ render_pc' = "release"
                /\ UNCHANGED <<idx, frames, writer, sec, render_error>>
           ELSE \/ /\ idx' = next_idx
                   /\ frames' = Append(frames,
                        [time |-> sec, sample |-> next_idx + 1,
                         display |-> RenderDynamicFrame(smp[next_idx + 1],
                                        Val(compiled).data_items)])
                   /\ writer' = Written(writer, render_args.fps)
                   /\ sec' = sec + 1
                   /\ UNCHANGED <<render_pc, render_error>>
                \/ /\ render_pc' = "raised"
                   /\ render_error' = "Exception"
                   /\ UNCHANGED <<idx, frames, writer, sec>>
    /\ UNCHANGED <<entry, render_args, compiled>>

\* out.release() after the loop (line 356).
OverlayRelease ==
    /\ entry = "generate_overlay_video"
    /\ \/ render_pc = "release"
       \/ /\ render_pc = "frames"
          /\ sec >= TotalSeconds(render_args.dive_samples,
                                 render_args.duration)
    /\ writer' = Released(writer)
    /\ render_pc' = "done"
    /\ UNCHANGED <<entry, render_args, compiled, sec, idx, frames,
                   render_error>>

\* round(): to the nearest integer, halves to the even one; x in tenths.
RoundHalfEven(x) ==
    LET q == x \div 10
        r == x % 10
    IN  IF r > 5 \/ (r = 5 /\ q % 2 = 1) THEN q + 1 ELSE q

\* _format_gas_mixture (profile_graph.py lines 21-46); fractions in
\* thousandths.
AirWhateverHelium(o2_percent, he_percent) == o2_percent = 21
IsAir(o2_percent, he_percent) == o2_percent = 21 /\ he_percent = 0

FormatGasMixture(fraction_o2, fraction_he) ==
    IF fraction_o2 = None
    THEN [label |-> "Unknown", o2 |-> 0, he |-> 0]
    ELSE LET o2_percent == RoundHalfEven(Val(fraction_o2))
             he_percent == IF fraction_he # None /\ Val(fraction_he) # 0
                           THEN RoundHalfEven(Val(fraction_he)) ELSE 0
         IN  IF IsAir(o2_percent, he_percent)
             THEN [label |-> "AIR", o2 |-> 0, he |-> 0]
             ELSE IF he_percent = 0
             THEN [label |-> "EAN", o2 |-> o2_percent, he |-> 0]
             ELSE [label |-> "/", o2 |-> o2_percent, he |-> he_percent]

FormatGas ==
    /\ entry = "_format_gas_mixture"
    /\ render_pc = "call"
    /\ frames' = <<FormatGasMixture(render_args.fraction_o2,
                                    render_args.fraction_he)>>
    /\ render_pc' = "done"
    /\ UNCHANGED <<entry, render_args, compiled, writer, sec, idx,
                   render_error>>

\* _render_gas_changes (profile_graph.py lines 214-236): the gas changes
\* that get a marker.  Line 225: the sample's gas differs from the gas of
\* the previous marker.
OxygenChanged(prev, sample) == prev.o2 # sample.fractionO2
GasChanged(prev, sample) ==
    prev.o2 # sample.fractionO2 \/ prev.he # sample.fractionHe

\* The dict appended at lines 226-231.
GasMarker(sample) ==
    [time |-> sample.time, depth |-> sample.depth,
     o2 |-> sample.fractionO2, he |-> sample.fractionHe]

\* The loop of lines 222-233 from sample k on.
RECURSIVE ScanGasChanges(_, _, _, _)
ScanGasChanges(smp, k, prev, found) ==
    IF k > Len(smp) THEN found
    ELSE IF smp[k].fractionO2 # None /\ GasChanged(prev, smp[k])
    THEN ScanGasChanges(smp, k + 1,
            [o2 |-> smp[k].fractionO2, he |-> smp[k].fractionHe],
            Append(found, GasMarker(smp[k])))
    ELSE ScanGasChanges(smp, k + 1, prev, found)

GasChanges(smp) ==
    ScanGasChanges(smp, 1, [o2 |-> None, he |-> None], <<>>)

\* _render_gas_changes: nothing is drawn unless gas_config["show"]; else
\* one icon per gas change (lines 214-215, 262-277).
RenderGasChanges ==
    /\ entry = "_render_gas_changes"
    /\ render_pc = "call"
    /\ frames' = IF render_args.show
                 THEN GasChanges(render_args.dive_samples) ELSE <<>>
    /\ render_pc' = "done"
    /\ UNCHANGED <<entry, render_args, compiled, writer, sec, idx,
                   render_error>>

\* _time_to_x and _depth_to_y (profile_graph.py lines 60-93): linear maps
\* onto the graph's pixel rectangle, truncated to whole pixels; depths in
\* hundredths, the depth scale padded by 10%.
TimeToX(time, total_duration, graph_x, graph_width) ==
    IF total_duration <= 0 THEN graph_x
    ELSE graph_x + (time * graph_width) \div total_duration

DepthToY(depth, max_depth, graph_y, graph_height) ==
    IF max_depth <= 0 THEN graph_y
    ELSE graph_y + (depth * graph_height * 10) \div (max_depth * 11)

\* _render_deco_ceiling, lines 333-348: one (x, y) point per sample; a
\* stop depth of None or 0 is a ceiling at the surface.
CeilingDepth(sample) ==
    IF sample.stop_depth = None THEN 0 ELSE Val(sample.stop_depth)

CeilingPoints(a) ==
    [i \in 1..Len(a.dive_samples) |->
        <<TimeToX(a.dive_samples[i].time, a.total_duration, a.graph_x,
                  a.graph_width),
          DepthToY(CeilingDepth(a.dive_samples[i]), a.max_depth, a.graph_y,
                   a.graph_height)>>]

\* Line 351: nothing is drawn unless some ceiling is deeper than 0.
HasNonzeroCeiling(smp) ==
    \E i \in 1..Len(smp) : CeilingDepth(smp[i]) > 0

\* draw.polygon for a segment of at least three points (lines 388-389,
\* 396-397).
DrawPolygon(polygons, segment) ==
    IF Len(segment) >= 3 THEN Append(polygons, segment) ELSE polygons

\* current_segment after a segment was closed at a surface point (line
\* 390).
SegmentKept(segment) == segment
SegmentAfterClose(segment) == <<>>

\* The loop of lines 373-397 from point i on.
RECURSIVE ScanCeiling(_, _, _, _, _)
ScanCeiling(points, graph_y, i, current_segment, polygons) ==
    IF i > Len(points)
    THEN IF current_segment # <<>>
         THEN DrawPolygon(polygons,
                Append(current_segment, <<points[Len(points)][1], graph_y>>))
         ELSE polygons
    ELSE IF points[i][2] > graph_y
    THEN ScanCeiling(points, graph_y, i + 1,
            Append(IF current_segment = <<>>
                   THEN <<<<points[i][1], graph_y>>>>
                   ELSE current_segment,
                   points[i]),
            polygons)
    ELSE IF current_segment # <<>>
    THEN LET prev_x == IF i > 1 THEN points[i - 1][1] ELSE points[i][1]
             closed == Append(current_segment, <<prev_x, graph_y>>)
         IN  ScanCeiling(points, graph_y, i + 1, SegmentAfterClose(closed),
                         DrawPolygon(polygons, closed))
    ELSE ScanCeiling(points, graph_y, i + 1, current_segment, polygons)

\* Lines 407-410: the border line through the points off the surface line.
BorderLine(points, graph_y) ==
    LET off == SelectSeq(points, LAMBDA pt : pt[2] # graph_y)
    IN  IF Len(off) > 1 THEN off ELSE <<>>

\* _render_deco_ceiling (lines 326-410): what is drawn.
RenderDecoCeiling ==
    /\ entry = "_render_deco_ceiling"
    /\ render_pc = "call"
    /\ LET points == CeilingPoints(render_args)
           drawn == render_args.show
                        /\ HasNonzeroCeiling(render_args.dive_samples)
       IN  frames' =
            <<[polygons |->
                    IF drawn /\ render_args.style \in {"filled", "both"}
                    THEN ScanCeiling(points, render_args.graph_y, 1,
                                     <<>>, <<>>)
                    ELSE <<>>,
               line |->
                    IF drawn /\ render_args.style \in {"line", "both"}
                    THEN BorderLine(points, render_args.graph_y)
                    ELSE <<>>]>>
    /\ render_pc' = "done"
    /\ UNCHANGED <<entry, render_args, compiled, writer, sec, idx,
                   render_error>>

----------------------------------------------------------------------------
(* The explored templates, sample lists and gases. *)

ProfileTemplates ==
    {[sections |-> {}, graph |-> {}],
     [sections |-> {"graph"}, graph |-> {}],
     [sections |-> {"graph"}, graph |-> RequiredGraphFields],
     [sections |-> {"graph", "background_color"},
      graph |-> RequiredGraphFields \cup {"axes", "gas_changes"}]}
    \cup {[sections |-> {"graph"}, graph |-> RequiredGraphFields \ {f}] :
            f \in RequiredGraphFields}

\* Sample lists in any order of their times, as a parser may return them.
RenderSampleLists ==
    UNION {[1..n -> {ProfileSample(t, 1200) : t \in RenderTimes}] :
            n \in 0..MaxRenderSamples}

PanelSample(time, depth, o2, he) ==
    [DiveSample(time, depth) EXCEPT
        !.fractionO2 = o2, !.fractionHe = he,
        !.temperature = Some(1850), !.pressure = <<Some(200), None>>]

\* Sample lists as a parser may return them: the last one is not in the
\* order of its times.
PanelSampleLists ==
    {<<>>,
     <<PanelSample(0, 1200, Some(32), None)>>,
     <<PanelSample(0, 1200, None, Some(5))>>,
     <<PanelSample(0, 500, Some(32), Some(5)),
       PanelSample(1, 1200, Some(32), None)>>,
     <<PanelSample(0, 1200, None, None),
       PanelSample(2, 1500, Some(21), Some(35))>>,
     <<PanelSample(1, 300, Some(21), None),
       PanelSample(1, 400, Some(21), None),
       PanelSample(2, 500, Some(21), None)>>,
     <<PanelSample(0, 300, Some(21), None),
       PanelSample(2, 500, Some(21), None),
       PanelSample(1, 400, Some(21), None)>>}

DataItemOf(field, compute, unit) ==
    [type |-> "data", field |-> field, compute |-> compute, unit |-> unit,
     fallback |-> "N/A", positioned |-> TRUE]

ItemChoices ==
    {DataItemOf(Some(f), None, u) :
        f \in {"depth", "temperature", "pressure[0]"},
        u \in {"", " ", "unit"}}
    \cup {DataItemOf(Some(f), None, "unit") :
            f \in {"stop_depth", "pressure[1]", "pressure[9]", "ndl",
                   "time", "fractionHe"}}
    \cup {DataItemOf(None, Some(e), u) :
            e \in {<<Ref("fractionO2", "02%"), Lit("/"),
                     Ref("fractionHe", "02%")>>,
                   <<Ref("fractionHe", ""), Lit("-"), Ref("depth", "1f")>>,
                   <<Ref("depth", "0f"), Lit("/"), Ref("fractionO2", "02%"),
                     Lit("/"), Ref("depth", "0f")>>,
                   <<Ref("nosuch", "")>>,
                   <<Lit("OC")>>},
            u \in {"", "unit"}}
    \cup {DataItemOf(Some("depth"), Some(e), "unit") :
            e \in {<<Ref("depth", "1f")>>,
                   <<Ref("depth", "1f"), Lit("/"), Ref("fractionHe", "")>>}}
    \cup {DataItemOf(None, None, "unit"),
          [DataItemOf(Some("depth"), None, "unit")
                EXCEPT !.positioned = FALSE],
          [DataItemOf(Some("depth"), None, "unit") EXCEPT !.type = "text"]}

NoUnits == [q \in {} |-> ""]

\* Pairs of the template's units and the command's overrides.
UnitChoices ==
    {<<NoUnits, NoUnits>>,
     <<NoUnits, [q \in {"depth", "pressure"} |-> ""]>>,
     <<[q \in {"depth"} |-> "m"], NoUnits>>,
     <<[q \in {"depth"} |-> "ft"], [q \in {"depth"} |-> ""]>>,
     <<[q \in {"depth"} |-> "ft"], [q \in {"depth"} |-> "m"]>>,
     <<[q \in {"depth"} |-> "m"], [q \in {"depth"} |-> "FT"]>>,
     <<[q \in Quantities |-> IF q = "depth" THEN "ft"
                             ELSE IF q = "pressure" THEN "psi" ELSE "F"],
       NoUnits>>,
     <<[q \in {"depth"} |-> "feet"], NoUnits>>,
     <<[q \in {"temperature"} |-> "K"],
       [q \in {"pressure"} |-> "psi"]>>,
     <<[q \in {"pressure"} |-> "bar"],
       [q \in {"temperature"} |-> "fahrenheit"]>>}

\* Gas fractions in thousandths.
GasFractions == {None, Some(0), Some(4), Some(180), Some(205), Some(210),
                 Some(214), Some(215), Some(320), Some(450), Some(1000)}

\* The gases a sample may carry, fractions in thousandths.
MaxGasSamples == 3
SampleGases ==
    {<<None, None>>, <<Some(210), None>>, <<Some(320), None>>,
     <<Some(210), Some(350)>>, <<None, Some(350)>>}

\* Sample i of a list is at time i - 1 and at a depth of its own.
GasSampleList(gases) ==
    [i \in 1..Len(gases) |->
        [ProfileSample(i - 1, 100 * i) EXCEPT
            !.fractionO2 = gases[i][1], !.fractionHe = gases[i][2]]]

\* Stop depths in hundredths of a metre; the shallowest one is less than
\* a pixel below the surface line.
MaxCeilingSamples == 4
StopDepths == {None, Some(0), Some(5), Some(300), Some(600)}

CeilingSampleList(stops) ==
    [i \in 1..Len(stops) |->
        [ProfileSample(i - 1, 4000) EXCEPT !.stop_depth = stops[i]]]

InitRender ==
    /\ \/ /\ entry = "compile_profile_template"
          /\ render_args \in
                [template : ProfileTemplates,
                 dive_samples : RenderSampleLists,
                 duration : {-1, 0, 1, MaxRenderSamples},
                 units_override : {None, Some("ft"), Some("feet"),
                                   Some("FT"), Some("m")}]
       \/ /\ entry = "generate_profile_overlay_video"
          /\ render_args \in
                [template : {[sections |-> {"graph"}, graph |-> {}],
                             [sections |-> {"graph"},
                              graph |-> RequiredGraphFields]},
                 dive_samples : RenderSampleLists,
                 duration : {None, Some(0), Some(2)},
                 time_offset : {0, 1},
                 units_override : {None},
                 fps : {1, 10}]
       \/ /\ entry = "generate_overlay_video"
          /\ \E n \in 0..MaxItems :
                \E items \in [1..n -> ItemChoices],
                   units \in UnitChoices, loadable \in BOOLEAN :
                    render_args \in
                        [template : {[items |-> items, units |-> units[1],
                                      loadable |-> loadable]},
                         dive_samples : PanelSampleLists,
                         duration : {None, Some(2)},
                         units_override : {units[2]},
                         fps : {10}]
       \/ /\ entry = "_format_gas_mixture"
          /\ render_args \in
                [fraction_o2 : GasFractions, fraction_he : GasFractions]
       \/ /\ entry = "_render_deco_ceiling"
          /\ \E n \in 0..MaxCeilingSamples :
                \E stops \in [1..n -> StopDepths] :
                    render_args \in
                        [dive_samples : {CeilingSampleList(stops)},
                         total_duration : {n},
                         max_depth : {4000},
                         graph_x : {5}, graph_y : {0, 20},
                         graph_width : {100}, graph_height : {100},
                         show : BOOLEAN,
                         style : {"filled", "line", "both"}]
       \/ /\ entry = "_render_gas_changes"
          /\ \E n \in 0..MaxGasSamples :
                \E gases \in [1..n -> SampleGases], show \in BOOLEAN :
                    render_args = [dive_samples |-> GasSampleList(gases),
                                   show |-> show]
    /\ render_pc = "call"
    /\ compiled = None /\ writer = NoWriter /\ sec = 0 /\ idx = 0
    /\ frames = <<>> /\ render_error = ""
    /\ SegIdle
    /\ TzIdle
    /\ MainIdle
    /\ ParseIdle

NextRender ==
    \/ CompileProfile /\ UNCHANGED <<segVars, tzVars, mainVars, parseVars>>
    \/ RenderProfileFrame
            /\ UNCHANGED <<segVars, tzVars, mainVars, parseVars>>
    \/ GenerateProfileStart
            /\ UNCHANGED <<segVars, tzVars, mainVars, parseVars>>
    \/ ProfileFrame /\ UNCHANGED <<segVars, tzVars, mainVars, parseVars>>
    \/ ProfileRelease /\ UNCHANGED <<segVars, tzVars, mainVars, parseVars>>
    \/ OverlayOpenWriter
            /\ UNCHANGED <<segVars, tzVars, mainVars, parseVars>>
    \/ OverlayCompile /\ UNCHANGED <<segVars, tzVars, mainVars, parseVars>>
    \/ OverlayFrame /\ UNCHANGED <<segVars, tzVars, mainVars, parseVars>>
    \/ OverlayRelease /\ UNCHANGED <<segVars, tzVars, mainVars, parseVars>>
    \/ FormatGas /\ UNCHANGED <<segVars, tzVars, mainVars, parseVars>>
    \/ RenderGasChanges
            /\ UNCHANGED <<segVars, tzVars, mainVars, parseVars>>
    \/ RenderDecoCeiling
            /\ UNCHANGED <<segVars, tzVars, mainVars, parseVars>>

SpecRender == InitRender /\ [][NextRender]_vars

----------------------------------------------------------------------------
(* Claims about extract_dive_segment, checked under SpecSegment. *)

RECURSIVE AscendingSeq(_)
AscendingSeq(S) ==
    IF S = {} THEN <<>> ELSE <<SetMin(S)>> \o AscendingSeq(S \ {SetMin(S)})

SegCalled == seg_pc = "done" /\ samples # <<>>
LastTime == samples[Len(samples)]

\* The claim's three parts, stated on the bounds as the caller passed them.
PredecessorOfWindow ==
    {i \in 1..(Len(samples) - 1) :
        /\ samples[i + 1] >= segment_start
        /\ \A j \in 1..i : samples[j] < segment_start}
InsideWindow ==
    {i \in 1..Len(samples) :
        segment_start <= samples[i] /\ samples[i] <= segment_end}
SuccessorOfWindow ==
    {i \in 1..Len(samples) :
        /\ samples[i] > segment_end
        /\ \A j \in 1..(i - 1) : samples[j] <= segment_end}

\* C1: for a time-ordered sample list and segment_start < last sample time,
\* the call returns exactly: the sample just before the first sample with
\* time >= segment_start (if any), then every sample with
\* segment_start <= time <= segment_end, then the first sample with
\* time > segment_end (if any); [100,200] over [0,50,100,150,200,250] gives
\* the samples at 50,100,150,200,250.
C1_SegmentSelection ==
    /\ (SegCalled /\ IsTimeOrdered(samples) /\ segment_start < LastTime)
        => /\ seg_outcome.kind = "ok"
           /\ seg_outcome.samples =
                AscendingSeq(PredecessorOfWindow)
                    \o AscendingSeq(InsideWindow)
                    \o AscendingSeq(SuccessorOfWindow)
    /\ (SegCalled /\ samples = ExampleSamples
            /\ segment_start = 100 /\ segment_end = 200)
        => [k \in 1..Len(seg_outcome.samples) |->
                samples[seg_outcome.samples[k]]] = <<50, 100, 150, 200, 250>>

C1_Witness ==
    /\ SegCalled /\ IsTimeOrdered(samples) /\ segment_start < LastTime
    /\ PredecessorOfWindow # {} /\ SuccessorOfWindow # {}
    /\ Cardinality(InsideWindow) >= 2
    /\ Len(seg_outcome.samples) >= 4

\* C2: whenever segment_start >= the last sample's time the call raises
\* SegmentOutOfBoundsError carrying segment start, segment end and the dive
\* duration, and returns no list.
C2_OutOfBoundsRaised ==
    (SegCalled /\ segment_start >= LastTime)
        => /\ seg_outcome.kind = "SegmentOutOfBoundsError"
           /\ seg_outcome.samples = <<>>
           /\ seg_outcome.segment_start = segment_start
           /\ seg_outcome.segment_end = segment_end
           /\ seg_outcome.count = LastTime

C2_Witness ==
    /\ SegCalled /\ segment_start = LastTime /\ segment_end > segment_start
    /\ seg_outcome.kind = "SegmentOutOfBoundsError"

\* C3: every window entirely outside [0, diveDuration] is a fatal segment
\* error: the call raises both when the window starts at or after the
\* dive's end and when the window ends before the dive's start
\* (segment_end < 0).
C3_OutsideWindowIsFatal ==
    (/\ SegCalled /\ IsTimeOrdered(samples) /\ segment_start <= segment_end
     /\ (segment_start >= LastTime \/ segment_end < 0))
        => seg_outcome.kind # "ok"

\* C4 as claimed: with s < diveDuration the call returns the same sample
\* list as the call with max(s, 0) and min(e, diveDuration).
ClampedCall ==
    ExtractDiveSegment(
        samples,
        IF segment_start < 0 THEN 0 ELSE segment_start,
        IF segment_end > LastTime THEN LastTime ELSE segment_end)

C4_Original ==
    (SegCalled /\ IsTimeOrdered(samples) /\ segment_start < LastTime)
        => /\ seg_outcome.kind = ClampedCall.kind
           /\ seg_outcome.samples = ClampedCall.samples

\* C4 (amended): a window only partially outside the dive is not an error:
\* with max(s, 0) < diveDuration the call returns a sample list, and it
\* is exactly the list returned for (max(s, 0), min(e, diveDuration)).
C4_ClampEquivalence ==
    (/\ SegCalled
     /\ segment_start < LastTime
     /\ (IF segment_start < 0 THEN 0 ELSE segment_start) < LastTime)
        => /\ seg_outcome.kind = "ok"
           /\ ClampedCall.kind = "ok"
           /\ seg_outcome.samples = ClampedCall.samples

C4_Witness ==
    /\ SegCalled /\ segment_start < 0 /\ segment_end > LastTime
    /\ LastTime > 0
    /\ seg_outcome.kind = "ok"
    /\ seg_outcome.warnings = {"trimmed_end", "adjusted_start"}

\* C5: the call never returns an empty list: when nothing is selected it
\* raises EmptySegmentError carrying both segment bounds and the number of
\* samples of the dive.
C5_NeverEmptyList ==
    seg_pc = "done"
        => /\ seg_outcome.kind = "ok" => seg_outcome.samples # <<>>
           /\ samples = <<>> => seg_outcome.kind = "EmptySegmentError"
           /\ seg_outcome.kind = "EmptySegmentError"
                => /\ seg_outcome.samples = <<>>
                   /\ seg_outcome.segment_start = segment_start
                   /\ seg_outcome.segment_end = segment_end
                   /\ seg_outcome.count = Len(samples)

C5_Witness ==
    /\ seg_pc = "done" /\ samples = <<>>
    /\ seg_outcome.kind = "EmptySegmentError"
    /\ seg_outcome.segment_start = segment_start
    /\ seg_outcome.count = 0

----------------------------------------------------------------------------
(* Claims about detect_timezone_offset, checked under SpecTimezone. *)

CandidateOrder ==
    <<0, 1, -1, 2, -2, 3, -3, 4, -4, 5, -5,
      6, -6, 7, -7, 8, -8, 9, -9, 10, -10>>

Abs(x) == IF x < 0 THEN -x ELSE x

Places(h) ==
    /\ dive_start <= video_time + h * 3600
    /\ video_time + h * 3600 <= dive_end

\* C6: the 21 candidates are tried in exactly the order 0, +1, -1, ...,
\* +10, -10 and the first candidate h with
\* dive_start <= video_time + h hours <= dive_end is returned; the result
\* has the smallest absolute value among the satisfying offsets, +h is
\* preferred over -h, None is returned exactly when no integer offset in
\* [-10, 10] satisfies the bound, and at most 21 tests are made.
C6_SearchOrder ==
    /\ Len(tz_tested) <= 21
    /\ \A k \in 1..Len(tz_tested) : tz_tested[k] = CandidateOrder[k]
    /\ tz_pc = "loop" => \A k \in 1..Len(tz_tested) : ~Places(tz_tested[k])
    /\ (tz_pc = "returned" /\ tz_result # None)
        => /\ Val(tz_result) = tz_tested[Len(tz_tested)]
           /\ Places(Val(tz_result))
           /\ \A k \in 1..(Len(tz_tested) - 1) : ~Places(tz_tested[k])
           /\ \A h \in -10..10 :
                Places(h) => Abs(Val(tz_result)) <= Abs(h)
           /\ Val(tz_result) < 0 => ~Places(-Val(tz_result))
    /\ tz_pc = "returned"
        => (tz_result = None <=> \A h \in -10..10 : ~Places(h))

C6_Witness ==
    /\ tz_pc = "returned"
    /\ tz_result = Some(3)
    /\ tz_tested = <<0, 1, -1, 2, -2, 3>>
    /\ video_time + 3 * 3600 = dive_end

----------------------------------------------------------------------------
(* Claims about main(), checked under SpecMain. *)

Called(name) == \E k \in 1..Len(calls) : calls[k] = name

SearchFailed ==
    /\ args.match_video
    /\ Called("detect_timezone_offset")
    /\ tz_pc = "returned"
    /\ tz_result = None

\* C7: in match-video mode, when detect_timezone_offset returns None the
\* run ends in a TimezoneOffsetError failure: offset 0 is never assumed, and
\* no segment extraction, template loading or rendering happens afterwards.
C7_NoOffsetIsFatal ==
    SearchFailed
        => /\ timezone_offset = None
           /\ segment_start_offset = None
           /\ ~Called("extract_dive_segment")
           /\ ~Called("load_template")
           /\ ~Called("generate_overlay_video")
           /\ ~Called("generate_profile_overlay_video")
           /\ render_job = NoJob
           /\ main_pc \in {"detect", "exit"}
           /\ main_pc = "detect" => ENABLED MainOffsetDetected
           /\ main_pc = "exit" => main_error = "TimezoneOffsetError"

C7_Witness ==
    /\ SearchFailed
    /\ Len(tz_tested) = 21
    /\ main_pc = "exit"
    /\ main_error = "TimezoneOffsetError"

----------------------------------------------------------------------------
(* Claims about the parsers, checked under SpecParser. *)

Parsed == parse_pc = "done"

SampleTimesOf(profile) == [i \in 1..Len(profile) |-> profile[i].time]

\* The fields of a sample other than time; a list slot is a field.
ScalarFields ==
    {"depth", "ndl", "tts", "stop_depth", "stop_time", "temperature",
     "fractionO2", "fractionHe", "sac", "gtr", "ppo2", "cns"}

FieldsOf(sample) ==
    {[name |-> n, slot |-> 0] : n \in ScalarFields}
    \cup {[name |-> "pressure", slot |-> j] :
            j \in 1..Len(sample.pressure)}
    \cup {[name |-> "ppo2_sensors", slot |-> j] :
            j \in 1..Len(sample.ppo2_sensors)}

FieldValue(sample, f) ==
    IF f.slot = 0 THEN sample[f.name] ELSE sample[f.name][f.slot]

\* The attribute / element of a source record that carries a field.
SubsurfaceKeys ==
    [depth |-> "depth", ndl |-> "ndl", tts |-> "tts",
     temperature |-> "temp", stop_depth |-> "stopdepth",
     stop_time |-> "stoptime", ppo2 |-> "dc_supplied_ppo2"]

ShearwaterKeys ==
    [depth |-> "currentDepth", ndl |-> "currentNdl", tts |-> "ttsMins",
     temperature |-> "waterTemp", stop_depth |-> "firstStopDepth",
     stop_time |-> "firstStopTime", fractionO2 |-> "fractionO2",
     fractionHe |-> "fractionHe", ppo2 |-> "averagePPO2", sac |-> "sac",
     gtr |-> "gasTime"]

SourceKey(f) ==
    IF doc.format = "ssrf"
    THEN IF f.name = "pressure"
         THEN <<"pressure0", "pressure1", "pressure2", "pressure3">>[f.slot]
         ELSE IF f.name = "ppo2_sensors"
         THEN <<"sensor1", "sensor2", "sensor3">>[f.slot]
         ELSE IF f.name \in DOMAIN SubsurfaceKeys
         THEN SubsurfaceKeys[f.name]
         ELSE ""
    ELSE IF f.name = "pressure"
         THEN <<"tank0pressurePSI", "tank1pressurePSI",
                "tank2pressurePSI", "tank3pressurePSI">>[f.slot]
         ELSE IF f.name \in DOMAIN ShearwaterKeys
         THEN ShearwaterKeys[f.name]
         ELSE ""

\* Record i supplies field f: it has the attribute / a non-empty element.
Supplies(i, f) ==
    LET rec == doc.records[i]
        key == SourceKey(f)
    IN  /\ key \in DOMAIN rec
        /\ rec[key].kind # "empty"

\* The initial defaults as the claim lists them.
ClaimedDefault(f) ==
    IF f.name = "ndl" THEN Some(99)
    ELSE IF f.name \in {"stop_depth", "stop_time"} THEN Some(0)
    ELSE None

\* The initial defaults of the two parsers.
InitialDefault(f) ==
    IF f.name = "ndl" THEN Some(99)
    ELSE IF f.name \in {"stop_depth", "stop_time", "depth"} THEN Some(0)
    ELSE IF f.name = "cns" /\ doc.format = "ssrf" THEN Some(0)
    ELSE None

\* C8 as claimed: a field that record i does not supply equals its value
\* in sample i-1, or the declared default (ndl 99, stop depth/time 0,
\* empty pressure slots, None otherwise) when i is the first record.
C8_Original ==
    Parsed =>
        \A i \in 1..Len(profile_data) :
            \A f \in FieldsOf(profile_data[i]) :
                ~Supplies(i, f) =>
                    FieldValue(profile_data[i], f) =
                        IF i = 1 THEN ClaimedDefault(f)
                        ELSE FieldValue(profile_data[i - 1], f)

\* Sample i is the first sample at or after a gaschange event's time, the
\* sample a Subsurface gas change is injected at.
GasInjectedAt(i) ==
    /\ doc.format = "ssrf"
    /\ \E k \in 1..Len(doc.events) :
        /\ doc.events[k].name = "gaschange"
        /\ profile_data[i].time >= ParseTimeToSeconds(doc.events[k].time)
        /\ \A j \in 1..(i - 1) :
            profile_data[j].time < ParseTimeToSeconds(doc.events[k].time)

\* C8 (amended): carry-forward. In the sequence either parser returns, a
\* field (other than time) that record i does not supply equals its value
\* in sample i-1 - or, for the first record, the parser's initial default:
\* depth 0.0, ndl 99, stop depth/time 0, cns 0 (Subsurface only), every
\* pressure and ppo2 sensor slot None, None otherwise - except for the gas
\* fractions of a Subsurface sample at which a gas-change event is
\* injected.
C8_CarryForward ==
    Parsed =>
        \A i \in 1..Len(profile_data) :
            \A f \in FieldsOf(profile_data[i]) :
                (/\ ~Supplies(i, f)
                 /\ ~(f.name \in {"fractionO2", "fractionHe"}
                        /\ GasInjectedAt(i)))
                    => FieldValue(profile_data[i], f) =
                        IF i = 1 THEN InitialDefault(f)
                        ELSE FieldValue(profile_data[i - 1], f)

\* A value set by one record is carried over a record that does not
\* supply it, in both formats.
C8_Witness ==
    /\ Parsed
    /\ Len(profile_data) >= 2
    /\ \E f \in FieldsOf(profile_data[2]) :
        /\ Supplies(1, f) /\ ~Supplies(2, f)
        /\ FieldValue(profile_data[2], f) # InitialDefault(f)
        /\ FieldValue(profile_data[2], f) = FieldValue(profile_data[1], f)

\* C9: in every sample sequence a parser returns, sample[i+1].time >=
\* sample[i].time for all adjacent samples, whatever the order of the time
\* values in the source records.
C9_MonotonicTime ==
    Parsed => IsTimeOrdered(SampleTimesOf(profile_data))

\* The gaschange events of the document and their times.
GasEvents ==
    {k \in 1..Len(doc.events) : doc.events[k].name = "gaschange"}
EventTime(k) == ParseTimeToSeconds(doc.events[k].time)

\* Event k is the last event at or before time t in ascending event-time
\* order (equal times: the later one in the document).
Governs(k, t) ==
    /\ k \in GasEvents
    /\ EventTime(k) <= t
    /\ \A m \in GasEvents :
        EventTime(m) <= t
            => \/ EventTime(m) < EventTime(k)
               \/ EventTime(m) = EventTime(k) /\ m <= k

EventGas(k, key) ==
    IF key \in DOMAIN doc.events[k]
    THEN Some((IF doc.events[k][key].kind = "num"
               THEN 100 * doc.events[k][key].parts[1]
               ELSE doc.events[k][key].parts[1]) \div 100)
    ELSE None

\* C10: gas-change forward-fill (Subsurface). After all gaschange events
\* are applied in ascending event-time order, a sample before the first
\* event keeps its pre-event gas, and a sample with t_k <= time < t_(k+1)
\* carries fractionO2/fractionHe of event k (the last event to the end).
C10_GasForwardFill ==
    (Parsed /\ doc.format = "ssrf") =>
        \A i \in 1..Len(profile_data) :
            LET t == profile_data[i].time
            IN  /\ (\A k \in GasEvents : t < EventTime(k))
                    => /\ profile_data[i].fractionO2 = None
                       /\ profile_data[i].fractionHe = None
                /\ \A k \in GasEvents :
                    Governs(k, t)
                        => /\ profile_data[i].fractionO2 = EventGas(k, "o2")
                           /\ profile_data[i].fractionHe = EventGas(k, "he")

----------------------------------------------------------------------------
(* Claims about the time texts and the failures of a parse. *)

\* The seconds a time text denotes: N, MM:SS or H:MM:SS.
IsClaimedTimeForm(text) ==
    \/ text.kind = "num"
    \/ text.kind = "clock" /\ Len(text.parts) \in {2, 3}

DenotedSeconds(text) ==
    IF text.kind = "num" THEN text.parts[1]
    ELSE IF Len(text.parts) = 2 THEN 60 * text.parts[1] + text.parts[2]
    ELSE 3600 * text.parts[1] + 60 * text.parts[2] + text.parts[3]

\* C11: every Subsurface sample whose time text is 'N', 'MM:SS' or
\* 'H:MM:SS' gets the number of seconds the text denotes, and a parse whose
\* sample time is not a time text never completes.
C11_TimeForms ==
    doc.format = "ssrf"
        => /\ \A i \in 1..Len(profile_data) :
                LET attrs == doc.records[i]
                IN  (Has(attrs, "time") /\ IsClaimedTimeForm(attrs.time))
                        => profile_data[i].time = DenotedSeconds(attrs.time)
           /\ (\E i \in 1..Len(doc.records) :
                    Has(doc.records[i], "time")
                        /\ ~IsTimeText(doc.records[i].time))
                => parse_pc # "done"

\* The failure causes the contract lists, as they occur in the file.
UnparseableSampleTime ==
    \E i \in 1..Len(doc.records) :
        LET key == IF doc.format = "ssrf" THEN "time" ELSE "currentTime"
        IN  /\ Has(doc.records[i], key)
            /\ doc.records[i][key].kind \in {"text", "dec"}

ListedFailureCause ==
    \/ RegisteredParser(file.ext) = "none"
    \/ file.container = "malformed"
    \/ file.dive_sizes = <<>>
    \/ doc.format = "ssrf" /\ ~file.computer
    \/ doc.records = <<>>
    \/ file.start # "ok"
    \/ UnparseableSampleTime

\* C12: a parse that fails on a file with one of the listed causes fails
\* with a DiveLogError subclass (a failed parse raises, so it returns no
\* DiveData: "failed" and "done" are distinct final positions).
C12_TypedFailures ==
    (parse_pc = "failed" /\ ListedFailureCause)
        => parse_error.type \in DiveLogErrors

\* The registered parser gets as far as counting the dive records.
ContainerRead ==
    \/ RegisteredParser(file.ext) = "ssrf" /\ file.container = "wellformed"
    \/ RegisteredParser(file.ext) = "xml" /\ file.container # "malformed"

\* C13: a readable file of either format that holds more than one dive
\* record fails with MultipleDivesError carrying the number of dives; the
\* parser never goes on to read samples from it.
C13_MultipleDivesRejected ==
    (Len(file.dive_sizes) > 1 /\ ContainerRead /\ parse_pc # "dispatch")
        => /\ parse_pc = "failed"
           /\ parse_error = MultipleDivesError(Len(file.dive_sizes))

----------------------------------------------------------------------------
(* Claims about the renderers, checked under SpecRender. *)

CompileCalled ==
    entry = "compile_profile_template" /\ render_pc # "call"

\* The inputs the validation is said to reject.
RejectedProfileInput ==
    \/ Len(render_args.dive_samples) < 2
    \/ render_args.duration <= 0
    \/ "graph" \notin render_args.template.sections
    \/ ~(RequiredGraphFields \subseteq render_args.template.graph)

IndicatorSample(smp, current_time) ==
    LET reached == {i \in 1..Len(smp) : smp[i].time <= current_time}
    IN  IF reached = {} THEN 1
        ELSE SetMax({i \in reached :
                        \A j \in reached : smp[j].time <= smp[i].time})

\* C15: every frame rendered from a compiled template, in whatever order
\* the times are requested, has its indicator at the latest sample with
\* time <= current_time, or at the first sample when current_time precedes
\* all samples.
C15_IndicatorPosition ==
    (entry = "compile_profile_template" /\ compiled # None)
        => \A k \in 1..Len(frames) :
                frames[k].sample =
                    IndicatorSample(Val(compiled).dive_samples,
                                    frames[k].time)

\* The call of a video generator has ended, normally or by an exception.
GeneratorExited ==
    /\ entry \in {"generate_overlay_video", "generate_profile_overlay_video"}
    /\ render_pc \in {"done", "raised"}

\* C16: on every exit path of generate_overlay_video and of
\* generate_profile_overlay_video (normal completion, the early end on an
\* empty sample list, an exception in the template compilation or in
\* rendering or writing a frame after the writer was opened) the video
\* writer that was opened has been released exactly once; it is never
\* released twice.
C16_WriterReleasedOnce ==
    /\ writer.released <= 1
    /\ (GeneratorExited /\ writer.opened > 0) => writer.released = 1

\* A frame of generate_overlay_video and one of its compiled data items
\* that has a compute expression.
ComputedDisplays ==
    IF entry = "generate_overlay_video" /\ compiled # None
    THEN {<<k, j>> \in (1..Len(frames))
                        \X (1..Len(Val(compiled).data_items)) :
            Val(compiled).data_items[j].compute # None}
    ELSE {}

\* The sample has no value for the field: it is not an attribute of the
\* sample, or the attribute is None.
MissingOn(data, field) ==
    IF field \in DOMAIN data THEN data[field] = None ELSE TRUE

\* The references of a compute expression that the sample cannot supply.
MissingReferences(expr, data) ==
    {i \in 1..Len(expr) : expr[i].ref /\ MissingOn(data, expr[i].field)}

CompiledItems ==
    IF entry = "generate_overlay_video" /\ compiled # None
    THEN Val(compiled).data_items ELSE <<>>

\* The quantity class the claim gives a field, None for a computed item
\* (no field) and for the other fields.
ClaimedQuantity(field) ==
    IF field = None THEN None
    ELSE IF Val(field) \in {"depth", "stop_depth"} THEN Some("depth")
    ELSE IF Val(field) = "temperature" THEN Some("temperature")
    ELSE IF Val(field) \in {"pressure[0]", "pressure[1]", "pressure[9]"}
    THEN Some("pressure")
    ELSE None

\* The unit the merged unit map names for a quantity, "" if none: the
\* non-empty command override, else the template's unit.
RequestedUnit(quantity) ==
    LET override == render_args.units_override
        units == render_args.template.units
    IN  IF quantity \in DOMAIN override /\ override[quantity] # ""
        THEN override[quantity]
        ELSE IF quantity \in DOMAIN units THEN units[quantity]
        ELSE ""

\* The metric-to-imperial pairs that have a converter.
ConverterPairs ==
    {<<"depth", "ft">>, <<"pressure", "psi">>, <<"temperature", "f">>,
     <<"temperature", "fahrenheit">>}

\* C18: a converter is installed on a data item only if (and, in the code,
\* whenever) the item's field has a quantity class, the merged unit map names a target unit different
\* from the metric source, and a converter for that pair exists; computed
\* and unclassified items never get one; the displayed unit is the target
\* unit only when a converter was installed and the template gave a
\* non-empty unit label, otherwise the original label is kept.
C18_ConverterInstalled ==
    \A j \in 1..Len(CompiledItems) :
        LET it == CompiledItems[j]
            quantity == ClaimedQuantity(it.field)
            target == IF quantity = None THEN ""
                      ELSE RequestedUnit(Val(quantity))
        IN  /\ it.convert # None
                <=> /\ quantity # None
                   /\ target # ""
                   /\ target # SourceUnit(Val(quantity))
                   /\ <<Val(quantity), LowerUnit(target)>> \in ConverterPairs
            /\ it.final_unit = IF it.convert # None /\ it.unit \notin {"", " "}
                               THEN target ELSE it.unit

\* A classified item with a unit label whose converter was installed and
\* whose label became the overriding target unit, next to the cases that
\* keep the label: no label given, and a target equal to the source.
C18_Witness ==
    /\ \E j \in 1..Len(CompiledItems) :
            /\ CompiledItems[j].convert # None
            /\ CompiledItems[j].unit = "unit"
            /\ CompiledItems[j].final_unit = "FT"
            /\ render_args.template.units["depth"] = "m"
    /\ render_pc = "frames"

\* _format_gas_mixture has returned the label of a gas whose oxygen
\* fraction is known.
GasLabelled ==
    /\ entry = "_format_gas_mixture"
    /\ render_pc = "done"
    /\ render_args.fraction_o2 # None

\* percent is a nearest whole percentage of a fraction in thousandths.
NearestPercent(percent, thousandths) ==
    /\ 10 * percent - 5 <= thousandths
    /\ thousandths <= 10 * percent + 5

\* The label the claim gives to rounded percentages.
ClaimedLabel(o2_percent, he_percent) ==
    IF he_percent > 0
    THEN [label |-> "/", o2 |-> o2_percent, he |-> he_percent]
    ELSE IF o2_percent = 21 THEN [label |-> "AIR", o2 |-> 0, he |-> 0]
    ELSE [label |-> "EAN", o2 |-> o2_percent, he |-> 0]

\* C19: _format_gas_mixture labels a gas by its rounded percentages: 21%
\* O2 with 0% He is AIR, any other O2 percentage p with 0% He is EAN<p>,
\* a He percentage h > 0 gives <o2>/<h>; (0.32, 0) is EAN32 and
\* (0.18, 0.45) is 18/45; a missing He fraction counts as 0% He.
C19_GasLabel ==
    GasLabelled =>
        LET o2 == Val(render_args.fraction_o2)
            he == IF render_args.fraction_he = None THEN 0
                  ELSE Val(render_args.fraction_he)
        IN  /\ \E p, h \in 0..100 :
                    /\ NearestPercent(p, o2)
                    /\ NearestPercent(h, he)
                    /\ frames[1] = ClaimedLabel(p, h)
            /\ (o2 = 320 /\ he = 0)
                    => frames[1] = [label |-> "EAN", o2 |-> 32, he |-> 0]
            /\ (o2 = 180 /\ he = 450)
                    => frames[1] = [label |-> "/", o2 |-> 18, he |-> 45]

\* Air with helium added is labelled as a trimix.
C19_Witness ==
    /\ GasLabelled
    /\ render_args.fraction_o2 = Some(210)
    /\ render_args.fraction_he = Some(450)
    /\ frames[1] = [label |-> "/", o2 |-> 21, he |-> 45]

\* The time the parser reads from the source record a sample came from.
RecordTime(i) ==
    IF doc.format = "ssrf" THEN ParseTimeToSeconds(doc.records[i].time)
    ELSE Int_(doc.records[i].currentTime) \div MillisPerSecond

\* The samples emitted so far are those of the records read so far, one
\* per record and in document order; none is left out when the loop ends.
SamplesFollowRecords ==
    parse_pc \in {"samples", "inject", "done"}
        => /\ Len(profile_data) <= Len(doc.records)
           /\ parse_pc # "samples" => Len(profile_data) = Len(doc.records)
           /\ \A i \in 1..Len(profile_data) :
                    profile_data[i].time = RecordTime(i)

\* C20 (snapshot isolation): each parser emits exactly one sample per
\* source record, in document order; each step of the record loop appends
\* one sample, equal to the running snapshot after the record's updates,
\* and changes no field of a sample emitted earlier, whatever the record
\* writes into the snapshot's pressure and ppo2_sensors lists.
C20_SnapshotIsolation ==
    /\ []SamplesFollowRecords
    /\ [][(parse_pc = "samples" /\ profile_data' # profile_data)
            => /\ Len(profile_data') = Len(profile_data) + 1
               /\ \A i \in 1..Len(profile_data) :
                        profile_data'[i] = profile_data[i]
               /\ profile_data'[Len(profile_data')] = last_values']_vars

\* A later record has written into the snapshot's pressure list after a
\* sample was emitted, and the earlier sample kept its own pressures.
C20_Witness ==
    /\ parse_pc = "samples"
    /\ Len(profile_data) >= 2
    /\ profile_data[1].pressure # last_values.pressure
    /\ profile_data[2].pressure = last_values.pressure
    /\ profile_data[1].time = RecordTime(1)

\* The Shearwater elements the claim lists, and the sample field each one
\* feeds (a tank pressure feeds one slot of the pressure list).
SentinelElements ==
    {"waterTemp", "firstStopDepth", "firstStopTime", "sac", "gasTime",
     "tank0pressurePSI", "tank1pressurePSI", "tank2pressurePSI",
     "tank3pressurePSI"}

FedField(sample, element) ==
    IF element = "waterTemp" THEN sample.temperature
    ELSE IF element = "firstStopDepth" THEN sample.stop_depth
    ELSE IF element = "firstStopTime" THEN sample.stop_time
    ELSE IF element = "sac" THEN sample.sac
    ELSE IF element = "gasTime" THEN sample.gtr
    ELSE IF element = "tank0pressurePSI" THEN sample.pressure[1]
    ELSE IF element = "tank1pressurePSI" THEN sample.pressure[2]
    ELSE IF element = "tank2pressurePSI" THEN sample.pressure[3]
    ELSE sample.pressure[4]

\* Record i carries free text, not a number, in the element.
IsSentinel(i, element) ==
    /\ element \in DOMAIN doc.records[i]
    /\ doc.records[i][element].kind = "text"

\* C21: in the Shearwater parser a free-text sentinel reading for tank
\* pressure, sac, gas time, temperature or a stop value never raises an
\* error and makes that field None in the sample produced for that record,
\* uniformly for every such field.
C21_SentinelMakesAbsent ==
    doc.format = "xml" =>
        /\ \A i \in 1..Len(profile_data) :
                \A element \in SentinelElements :
                    IsSentinel(i, element)
                        => FedField(profile_data[i], element) = None
        /\ (parse_pc = "failed" /\ parse_error.type = "ValueError")
                => LET rec == doc.records[Len(profile_data) + 1]
                   IN  \/ rec.currentTime.kind # "num"
                       \/ /\ "currentDepth" \in DOMAIN rec
                          /\ rec.currentDepth.kind = "text"

\* generate_overlay_video was called with a non-empty sample list.
PanelVideo ==
    /\ entry = "generate_overlay_video"
    /\ render_args.dive_samples # <<>>

\* C22: generate_overlay_video renders exactly one frame for each integer
\* second s of [0, total_seconds), from the latest sample whose time is
\* <= s (the first sample when none is), and writes it exactly fps times,
\* total_seconds * fps frames in all for a non-empty sample list; the
\* sample index never decreases and never leaves [0, len(samples) - 1].
C22_AssemblyCursor ==
    PanelVideo =>
        LET smp == render_args.dive_samples
        IN  /\ \A k \in 1..Len(frames) :
                    /\ frames[k].time = k - 1
                    /\ frames[k].sample = IndicatorSample(smp, k - 1)
                    /\ k > 1 => frames[k - 1].sample <= frames[k].sample
            /\ idx \in 0..(Len(smp) - 1)
            /\ writer.written = Len(frames) * render_args.fps
            /\ render_pc = "done"
                    => Len(frames) = TotalSeconds(smp, render_args.duration)

\* In match-video mode an offset was found and extract_dive_segment has
\* been called with the bounds derived from it.
MatchedAndExtracted ==
    /\ args.match_video
    /\ tz_pc = "returned"
    /\ tz_result # None
    /\ Called("extract_dive_segment")

\* The video's start on the dive's clock, in seconds from the dive start,
\* and its length in whole seconds.
VideoStartInDiveTime ==
    video_metadata.start_time + Val(tz_result) * 3600 - dive_data.start_time
VideoDurationSeconds == video_metadata.duration_ms \div 1000

\* C23: in match-video mode, once an offset is found, the segment start
\* passed to extract_dive_segment equals (video start + offset hours - dive
\* start) in seconds and the segment end equals that start plus the video
\* duration in seconds; what main goes on with is the outcome of
\* extract_dive_segment for exactly these bounds.
C23_SegmentMath ==
    MatchedAndExtracted =>
        LET outcome == ExtractDiveSegment(dive_data.samples,
                            VideoStartInDiveTime,
                            VideoStartInDiveTime + VideoDurationSeconds)
        IN  /\ segment_start_offset = Some(VideoStartInDiveTime)
            /\ segment_end_offset =
                    Some(VideoStartInDiveTime + VideoDurationSeconds)
            /\ IF outcome.kind = "ok"
               THEN /\ dive_samples = outcome.samples
                    /\ time_offset = VideoStartInDiveTime
                    /\ main_error \notin {"SegmentOutOfBoundsError",
                                          "EmptySegmentError"}
               ELSE main_error = outcome.kind

\* A video that starts inside the dive after a whole-hour correction and
\* lasts a fraction of a second more than whole seconds.
C23_Witness ==
    /\ MatchedAndExtracted
    /\ Val(tz_result) # 0
    /\ VideoStartInDiveTime > 0
    /\ video_metadata.duration_ms = 30500
    /\ dive_samples # <<>>
    /\ main_error = ""

\* _render_gas_changes has drawn the markers of a sample list.
MarkersDrawn ==
    /\ entry = "_render_gas_changes"
    /\ render_pc = "done"
    /\ render_args.show

GasOf(sample) == <<sample.fractionO2, sample.fractionHe>>

\* The samples, in order, that satisfy a condition on their index.
SamplesWhere(smp, Test(_)) ==
    LET picked == {i \in 1..Len(smp) : Test(i)}
        Nth[k \in 1..Cardinality(picked)] ==
            CHOOSE i \in picked :
                Cardinality({j \in picked : j < i}) = k - 1
    IN  [k \in 1..Cardinality(picked) |-> smp[Nth[k]]]

\* The markers drawn are those of the given samples, in order.
MarkersAt(marked) ==
    /\ Len(frames) = Len(marked)
    /\ \A k \in 1..Len(marked) :
            /\ frames[k].time = marked[k].time
            /\ frames[k].depth = marked[k].depth
            /\ <<frames[k].o2, frames[k].he>> = GasOf(marked[k])

\* C24 as stated: one marker per distinct (fractionO2, fractionHe) pair,
\* at the first sample where the pair occurs; returning to a gas seen
\* earlier (A -> B -> A) adds no marker; samples without a fractionO2 get
\* none.
C24_Original ==
    MarkersDrawn =>
        LET smp == render_args.dive_samples
            FirstOfItsGas(i) ==
                /\ smp[i].fractionO2 # None
                /\ \A j \in 1..(i - 1) : GasOf(smp[j]) # GasOf(smp[i])
        IN  MarkersAt(SamplesWhere(smp, FirstOfItsGas))

\* C24, amended: one marker per gas change, at each sample that has a
\* fractionO2 and whose (fractionO2, fractionHe) pair differs from that of
\* the latest earlier sample with a fractionO2 (the first such sample is
\* always marked); returning to a gas seen earlier is a change and is
\* marked again; samples without a fractionO2 get none and do not
\* interrupt a gas.
C24_GasMarkers ==
    MarkersDrawn =>
        LET smp == render_args.dive_samples
            WithGas(i) == {j \in 1..(i - 1) : smp[j].fractionO2 # None}
            IsChange(i) ==
                /\ smp[i].fractionO2 # None
                /\ WithGas(i) # {}
                        => GasOf(smp[SetMax(WithGas(i))]) # GasOf(smp[i])
        IN  MarkersAt(SamplesWhere(smp, IsChange))

\* A dive that goes from air to nitrox and back to air: three markers.
C24_Witness ==
    /\ MarkersDrawn
    /\ Len(render_args.dive_samples) = 3
    /\ Len(frames) = 3
    /\ frames[1].o2 = Some(210) /\ frames[1].he = None
    /\ frames[2].o2 = Some(320)
    /\ frames[3].o2 = Some(210) /\ frames[3].he = None

\* _render_deco_ceiling has drawn a filled ceiling.
CeilingFilled ==
    /\ entry = "_render_deco_ceiling"
    /\ render_pc = "done"
    /\ render_args.show
    /\ render_args.style \in {"filled", "both"}

\* Sample i's ceiling lies below the surface line of the graph.
BelowSurface(i) == CeilingPoints(render_args)[i][2] > render_args.graph_y

\* The maximal runs <<first, last>> of consecutive samples whose ceiling
\* lies below the surface line.
CeilingRuns ==
    LET n == Len(render_args.dive_samples)
    IN  {r \in (1..n) \X (1..n) :
            /\ r[1] <= r[2]
            /\ \A i \in r[1]..r[2] : BelowSurface(i)
            /\ r[1] > 1 => ~BelowSurface(r[1] - 1)
            /\ r[2] < n => ~BelowSurface(r[2] + 1)}

\* The polygon of a run: a surface point at the run's first x, the run's
\* ceiling points, a surface point at the run's last x.
RunPolygon(r) ==
    LET points == CeilingPoints(render_args)
    IN  <<<<points[r[1]][1], render_args.graph_y>>>>
            \o SubSeq(points, r[1], r[2])
            \o <<<<points[r[2]][1], render_args.graph_y>>>>

\* C25: every polygon drawn by _render_deco_ceiling is built from one
\* maximal run of consecutive samples whose ceiling lies below the surface
\* line, closed by two surface-line points at the run's first and last x;
\* no polygon contains points of two runs separated by a surface-level
\* sample, and there are as many polygons as runs, in the runs' order.
C25_CeilingPolygons ==
    CeilingFilled =>
        LET polygons == frames[1].polygons
        IN  /\ Len(polygons) = Cardinality(CeilingRuns)
            /\ \A r \in CeilingRuns :
                    polygons[Cardinality({q \in CeilingRuns : q[1] <= r[1]})]
                        = RunPolygon(r)

\* Two runs separated by a sample at the surface, drawn as two polygons.
C25_Witness ==
    /\ CeilingFilled
    /\ Len(render_args.dive_samples) = 4
    /\ CeilingRuns = {<<1, 2>>, <<4, 4>>}
    /\ Len(frames[1].polygons) = 2
    /\ Len(frames[1].polygons[1]) = 4

\* The unit tokens the claim calls recognized, in lower case, and the
\* conversion each quantity's tokens select.
RecognizedTokens(quantity) ==
    IF quantity = "depth" THEN {"ft", "feet"}
    ELSE IF quantity = "pressure" THEN {"psi"}
    ELSE {"f", "fahrenheit"}

SelectedConversion(quantity) ==
    IF quantity = "depth" THEN "m->ft"
    ELSE IF quantity = "pressure" THEN "bar->psi"
    ELSE "C->F"

\* C26 in the field panel: a classified item converts exactly when the
\* unit requested for its quantity is a recognized token.
PanelTokensConvert ==
    \A j \in 1..Len(CompiledItems) :
        LET it == CompiledItems[j]
            quantity == ClaimedQuantity(it.field)
        IN  quantity # None =>
                it.convert =
                    IF LowerUnit(RequestedUnit(Val(quantity)))
                            \in RecognizedTokens(Val(quantity))
                    THEN Some(SelectedConversion(Val(quantity)))
                    ELSE None

\* C26 in the profile graph: depths are drawn in feet exactly when the
\* depth override is a recognized token.
ProfileTokensConvert ==
    (entry = "compile_profile_template" /\ compiled # None) =>
        LET override == render_args.units_override
            deepest == SetMax({Val(render_args.dive_samples[i].depth) :
                                i \in 1..Len(render_args.dive_samples)})
            feet == /\ override # None
                    /\ LowerUnit(Val(override)) \in RecognizedTokens("depth")
        IN  /\ Val(compiled).use_imperial = feet
            /\ Val(compiled).max_depth =
                    IF feet THEN (deepest * 328084) \div 100000
                    ELSE deepest

\* C26: every recognized unit-override token selects the conversion in
\* both overlay kinds: depth "ft" and "feet" convert metres to feet,
\* pressure "psi" converts bar to psi, temperature "f" and "fahrenheit"
\* convert Celsius to Fahrenheit, case-insensitively, and any metric or
\* unrecognized token leaves the value unconverted.
C26_RecognizedTokens == PanelTokensConvert /\ ProfileTokensConvert

InGapWindow ==
    /\ segment_start <= segment_end
    /\ \A i \in 1..Len(samples) :
            samples[i] < segment_start \/ samples[i] > segment_end

C28_OrderedSubsequence ==
    (SegCalled /\ IsTimeOrdered(samples) /\ seg_outcome.kind = "ok") =>
        /\ \A k \in 1..Len(seg_outcome.samples) :
                seg_outcome.samples[k] \in 1..Len(samples)
        /\ \A k \in 1..(Len(seg_outcome.samples) - 1) :
                seg_outcome.samples[k] < seg_outcome.samples[k + 1]

\* The dive's duration on main's clock: the last sample's time.
DiveDuration == dive_data.end_time - dive_data.start_time

\* C29: whenever detect_timezone_offset returns an offset, the segment
\* start derived from it satisfies 0 <= segment_start <= dive duration
\* and the extract_dive_segment call that follows does not raise
\* SegmentOutOfBoundsError, also when the adjusted video start is exactly
\* the dive's end time, which the inclusive match accepts.
C29_MatchedStartIsInBounds ==
    MatchedAndExtracted =>
        /\ 0 <= Val(segment_start_offset)
        /\ Val(segment_start_offset) <= DiveDuration
        /\ main_error # "SegmentOutOfBoundsError"

\* The samples main hands to the generator, as the generator reads them.
JobSamples ==
    [k \in 1..Len(render_job.samples) |->
        [time |-> dive_data.samples[render_job.samples[k]]]]

\* overlay.py lines 338-342: the sample (1-based) the frame of each second
\* is rendered from. The pointer starts at 0 and is only advanced, over
\* seconds that only grow, so the frame of a second is rendered from the
\* sample a scan from the first sample stops at.
PanelCursors(smp, total_seconds) ==
    [k \in 1..total_seconds |-> AdvanceIndex(smp, 0, k - 1) + 1]

\* profile_graph.py lines 911-915: the sample each second's indicator is
\* drawn at.
ProfileCursors(smp, offset, total_seconds) ==
    [k \in 1..total_seconds |-> CurrentSample(smp, (k - 1) + offset)]

\* main has handed a segment that starts inside the dive to one of the
\* two generators.
SegmentJob ==
    /\ segment_start_offset # None
    /\ Val(segment_start_offset) >= 0
    /\ render_job.kind # "none"
    /\ render_job.duration > 0

\* C30: in segment mode (match-video or --start), for both overlay kinds
\* the frame for output second s is rendered from the latest sample with
\* time <= segment_start + s (the position indicator in profile mode, the
\* displayed values in field-panel mode), not from the sample current at
\* dive time s.
C30_SegmentFrames ==
    SegmentJob =>
        LET cursors ==
                IF render_job.kind = "profile"
                THEN ProfileCursors(JobSamples, render_job.time_offset,
                                    render_job.duration)
                ELSE PanelCursors(JobSamples, render_job.duration)
        IN  \A k \in 1..render_job.duration :
                cursors[k] = IndicatorSample(JobSamples,
                                Val(segment_start_offset) + (k - 1))
====
